---- MODULE Spec2Model ----
(***************************************************************************)
(* Verification model of jinaga-cascade-core: the step graph (group-by,    *)
(* aggregates, define-property, filter), the output binder, the batched    *)
(* state updater and the keyed-array tree transforms.                      *)
(*                                                                         *)
(* Conventions.                                                            *)
(*   - A JavaScript value that may be undefined is an option: Undef (the   *)
(*     empty tuple) or a one-element tuple <<v>>.  Numbers are always      *)
(*     carried as options, so `x === undefined` is `x = Undef`.            *)
(*   - An object / ImmutableProps is a function from property names to     *)
(*     values; a missing property reads as Undef (Get).                    *)
(*   - A Map whose iteration order the code never uses is a function over  *)
(*     its key set; a Map or array whose order is used is a sequence.      *)
(*   - computeKeyPathHash (keyPath.join('::')) is modelled by the key path *)
(*     itself: it is injective on keys that do not contain '::'.           *)
(*   - Event propagation inside one add/remove call is synchronous; each   *)
(*     step turns the sequence of events it receives into the sequence of  *)
(*     events its subscribers receive.  A step's own handlers were         *)
(*     registered at its construction, before any downstream handler, so   *)
(*     the events it derives from an upstream event precede the forwarded  *)
(*     upstream event.                                                     *)
(***************************************************************************)
EXTENDS Integers, Sequences, FiniteSets, TLC

\* ---------------------------------------------------------------- bounds
MaxRows == 2
MaxVal == 2
Threshold == 1
MaxPending == 3
MaxHeld == 1
MaxValAgg == 2
MaxAggKeys == 3
MaxLive == 3
MaxLiveMutable == 2
MaxDepth == 2
MaxQueued == 1

MaxFilterRows == 3
MaxOverflow == 1
MaxWaiting == 4
MaxKept == 2
MaxReplayHeld == 2
MaxTreeRows == 3

\* ------------------------------------------------------ program constants
batchSize == 50
flushDelayMs == 16

\* ------------------------------------------------------- values and maps
Undef == <<>>

Num(n) == <<n>>

Val(x) == x[1]

EmptyMap == <<>>

Has(m, k) == k \in DOMAIN m

Get(props, name) == IF name \in DOMAIN props THEN props[name] ELSE Undef

With(props, name, v) ==
    [n \in (DOMAIN props) \cup {name} |-> IF n = name THEN v ELSE props[n]]

Merge(a, b) ==
    [n \in (DOMAIN a) \cup (DOMAIN b) |-> IF n \in DOMAIN b THEN b[n] ELSE a[n]]

Without(props, names) == [n \in (DOMAIN props) \ names |-> props[n]]

Restrict(props, names) == [n \in (DOMAIN props) \cap names |-> props[n]]

Del(m, k) == [x \in (DOMAIN m) \ {k} |-> m[x]]

Front(s) == SubSeq(s, 1, Len(s) - 1)

Last(s) == s[Len(s)]

pathsMatch(a, b) == a = b

pathStartsWith(a, b) == Len(a) >= Len(b) /\ SubSeq(a, 1, Len(b)) = b

\* ------------------------------------------- materialized-tree transforms
Ok(t) == [ok |-> TRUE, tree |-> t, error |-> "none"]

Throw(msg) == [ok |-> FALSE, tree |-> <<>>, error |-> msg]

\* createKeyToIndexMap followed by get: a later duplicate key overwrites an
\* earlier one, so the index found is the last one; 0 stands for undefined.
createKeyToIndexMap(state, key) ==
    LET hits == {i \in 1..Len(state) : state[i].key = key}
    IN  IF hits = {} THEN 0 ELSE CHOOSE i \in hits : \A j \in hits : j <= i

ReplaceAt(state, i, item) == [state EXCEPT ![i] = item]

\* addToKeyedArray with the new row put first or last, and an unknown parent
\* thrown or skipped
RECURSIVE addToKeyedArray_variant(_, _, _, _, _, _, _)
addToKeyedArray_variant(state, segmentPath, keyPath, key, immutableProps, atEnd, throws) ==
    LET row == [key |-> key, value |-> immutableProps]
    IN  IF segmentPath = <<>> \/ keyPath = <<>>
        THEN IF segmentPath # keyPath
             THEN Throw("Mismatched path length when setting state")
             ELSE Ok(IF atEnd THEN Append(state, row) ELSE <<row>> \o state)
        ELSE LET existingItemIndex == createKeyToIndexMap(state, keyPath[1])
             IN  IF existingItemIndex = 0
                 THEN IF throws
                      THEN Throw("Path references unknown item when setting state")
                      ELSE Ok(state)
                 ELSE LET existingItem == state[existingItemIndex]
                          modifiedArray ==
                              addToKeyedArray_variant(Get(existingItem.value, segmentPath[1]),
                                  Tail(segmentPath), Tail(keyPath), key, immutableProps,
                                  atEnd, throws)
                      IN  IF ~modifiedArray.ok
                          THEN modifiedArray
                          ELSE Ok(ReplaceAt(state, existingItemIndex,
                                    [key |-> keyPath[1],
                                     value |-> With(existingItem.value, segmentPath[1],
                                                    modifiedArray.tree)]))

\* an add that puts the new row first
addToKeyedArray_prepend(state, segmentPath, keyPath, key, immutableProps) ==
    addToKeyedArray_variant(state, segmentPath, keyPath, key, immutableProps, FALSE, TRUE)

\* an add that skips an unknown parent as remove and modify do
addToKeyedArray_skipsUnknown(state, segmentPath, keyPath, key, immutableProps) ==
    addToKeyedArray_variant(state, segmentPath, keyPath, key, immutableProps, TRUE, FALSE)

RECURSIVE addToKeyedArray(_, _, _, _, _)
addToKeyedArray(state, segmentPath, keyPath, key, immutableProps) ==
    IF segmentPath = <<>>
    THEN IF keyPath # <<>>
         THEN Throw("Mismatched path length when setting state")
         ELSE Ok(Append(state, [key |-> key, value |-> immutableProps]))
    ELSE IF keyPath = <<>>
         THEN Throw("Mismatched path length when setting state")
         ELSE LET parentKey == keyPath[1]
                  segment == segmentPath[1]
                  existingItemIndex == createKeyToIndexMap(state, parentKey)
              IN  IF existingItemIndex = 0
                  THEN Throw("Path references unknown item when setting state")
                  ELSE LET existingItem == state[existingItemIndex]
                           existingArray == Get(existingItem.value, segment)
                           modifiedArray == addToKeyedArray(existingArray, Tail(segmentPath),
                                                            Tail(keyPath), key, immutableProps)
                       IN  IF ~modifiedArray.ok
                           THEN modifiedArray
                           ELSE Ok(ReplaceAt(state, existingItemIndex,
                                     [key |-> parentKey,
                                      value |-> With(existingItem.value, segment, modifiedArray.tree)]))

\* a remove that reaches the root array only
removeFromKeyedArray_rootOnly(state, segmentPath, keyPath, key) ==
    IF segmentPath = <<>>
    THEN Ok(SelectSeq(state, LAMBDA item : item.key # key))
    ELSE Ok(state)

RECURSIVE removeFromKeyedArray(_, _, _, _)
removeFromKeyedArray(state, segmentPath, keyPath, key) ==
    IF segmentPath = <<>>
    THEN IF keyPath # <<>>
         THEN Throw("Mismatched path length when removing from state")
         ELSE Ok(SelectSeq(state, LAMBDA item : item.key # key))
    ELSE IF keyPath = <<>>
         THEN Throw("Mismatched path length when removing from state")
         ELSE LET parentKey == keyPath[1]
                  segment == segmentPath[1]
                  existingItemIndex == createKeyToIndexMap(state, parentKey)
              IN  IF existingItemIndex = 0
                  THEN Ok(state)
                  ELSE LET existingItem == state[existingItemIndex]
                           existingArray == Get(existingItem.value, segment)
                           modifiedArray == removeFromKeyedArray(existingArray, Tail(segmentPath),
                                                                 Tail(keyPath), key)
                       IN  IF ~modifiedArray.ok
                           THEN modifiedArray
                           ELSE Ok(ReplaceAt(state, existingItemIndex,
                                     [key |-> parentKey,
                                      value |-> With(existingItem.value, segment, modifiedArray.tree)]))

RECURSIVE modifyInKeyedArray(_, _, _, _, _, _)
modifyInKeyedArray(state, segmentPath, keyPath, key, name, value) ==
    IF segmentPath = <<>>
    THEN IF keyPath # <<>>
         THEN Throw("Mismatched path length when modifying state")
         ELSE LET existingItemIndex == createKeyToIndexMap(state, key)
              IN  IF existingItemIndex = 0
                  THEN Ok(state)
                  ELSE Ok(ReplaceAt(state, existingItemIndex,
                            [key |-> key,
                             value |-> With(state[existingItemIndex].value, name, value)]))
    ELSE IF keyPath = <<>>
         THEN Throw("Mismatched path length when modifying state")
         ELSE LET parentKey == keyPath[1]
                  segment == segmentPath[1]
                  existingItemIndex == createKeyToIndexMap(state, parentKey)
              IN  IF existingItemIndex = 0
                  THEN Ok(state)
                  ELSE LET existingItem == state[existingItemIndex]
                           existingArray == Get(existingItem.value, segment)
                           modifiedArray == modifyInKeyedArray(existingArray, Tail(segmentPath),
                                                               Tail(keyPath), key, name, value)
                       IN  IF ~modifiedArray.ok
                           THEN modifiedArray
                           ELSE Ok(ReplaceAt(state, existingItemIndex,
                                     [key |-> parentKey,
                                      value |-> With(existingItem.value, segment, modifiedArray.tree)]))

\* One iteration of the loop in the transform built by flush().
ApplyOperation(result, op) ==
    CASE op.type = "add" ->
           addToKeyedArray(result, op.segmentPath, op.keyPath, op.key, op.immutableProps)
      [] op.type = "remove" ->
           removeFromKeyedArray(result, op.segmentPath, op.keyPath, op.key)
      [] op.type = "modify" ->
           modifyInKeyedArray(result, op.segmentPath, op.keyPath, op.key, op.name, op.value)

\* -------------------------------------------------------- shared by steps
computeKeyPathHash(keyPath) == keyPath

\* every occurrence goes, as values.filter(x => x !== v) would do
RemoveAll(values, v) == SelectSeq(values, LAMBDA x : x # v)

RECURSIVE RemoveFirst(_, _)
\* values.indexOf(v) followed by values.splice(index, 1)
RemoveFirst(values, v) ==
    IF values = <<>> THEN <<>>
    ELSE IF Head(values) = v THEN Tail(values)
    ELSE <<Head(values)>> \o RemoveFirst(Tail(values), v)

RECURSIVE MathMin(_)
MathMin(values) ==
    IF Len(values) = 1 THEN values[1]
    ELSE LET m == MathMin(Tail(values)) IN IF values[1] < m THEN values[1] ELSE m

RECURSIVE MathMax(_)
MathMax(values) ==
    IF Len(values) = 1 THEN values[1]
    ELSE LET m == MathMax(Tail(values)) IN IF values[1] > m THEN values[1] ELSE m

\* hands over the new value as the old one too
EmitToParent_newAsOld(parentKeyPath, oldAggregate, newAggregate) ==
    IF Len(parentKeyPath) > 0
    THEN [keyPath |-> Front(parentKeyPath), key |-> Last(parentKeyPath),
          old |-> newAggregate, new |-> newAggregate]
    ELSE [keyPath |-> <<>>, key |-> "",
          old |-> newAggregate, new |-> newAggregate]

\* The modified event an aggregate hands to its modifiedHandlers: the parent
\* row is addressed by splitting the children's key path.
EmitToParent(parentKeyPath, oldAggregate, newAggregate) ==
    IF Len(parentKeyPath) > 0
    THEN [keyPath |-> Front(parentKeyPath), key |-> Last(parentKeyPath),
          old |-> oldAggregate, new |-> newAggregate]
    ELSE [keyPath |-> <<>>, key |-> "",
          old |-> oldAggregate, new |-> newAggregate]

\* ----------------------------------------------------- MinMaxAggregateStep
MinMaxInit == [valueStore |-> EmptyMap, aggregateValues |-> EmptyMap, itemValues |-> EmptyMap]

aggregateFn(cfg, values) ==
    IF cfg.aggregateFn = "min" THEN MathMin(values) ELSE MathMax(values)

MinMax_handleItemAdded(cfg, st, keyPath, itemKey, item) ==
    LET parentKeyHash == computeKeyPathHash(keyPath)
        itemValues1 == IF Has(st.itemValues, parentKeyHash) THEN st.itemValues
                       ELSE With(st.itemValues, parentKeyHash, EmptyMap)
        value == Get(item, cfg.numericProperty)
    IN  IF cfg.isPropertyMutable /\ value = Undef
        THEN [st |-> [st EXCEPT !.itemValues = itemValues1], emits |-> <<>>]
        ELSE LET numeric == value # Undef
                 itemValues2 == IF numeric
                                THEN With(itemValues1, parentKeyHash,
                                          With(itemValues1[parentKeyHash], itemKey, Val(value)))
                                ELSE itemValues1
                 valueStore2 == IF numeric
                                THEN With(st.valueStore, parentKeyHash,
                                          Append(Get(st.valueStore, parentKeyHash), Val(value)))
                                ELSE st.valueStore
                 values == Get(valueStore2, parentKeyHash)
                 oldAggregate == Get(st.aggregateValues, parentKeyHash)
                 newAggregate == IF Len(values) > 0 THEN Num(aggregateFn(cfg, values)) ELSE Undef
             IN  [st |-> [valueStore |-> valueStore2,
                          aggregateValues |-> With(st.aggregateValues, parentKeyHash, newAggregate),
                          itemValues |-> itemValues2],
                  emits |-> <<EmitToParent(keyPath, oldAggregate, newAggregate)>>]

MinMax_handleItemPropertyChanged(cfg, st, keyPath, itemKey, oldValue, newValue) ==
    LET parentKeyHash == computeKeyPathHash(keyPath)
        itemValues1 == IF Has(st.itemValues, parentKeyHash) THEN st.itemValues
                       ELSE With(st.itemValues, parentKeyHash, EmptyMap)
        itemValuesMap == itemValues1[parentKeyHash]
        hadOld == Has(itemValuesMap, itemKey)
        hasNew == newValue # Undef
        itemValuesMap2 == IF hasNew THEN With(itemValuesMap, itemKey, Val(newValue))
                          ELSE Del(itemValuesMap, itemKey)
        hasValues == Has(st.valueStore, parentKeyHash)
        removed == IF hasValues /\ hadOld
                   THEN RemoveFirst(st.valueStore[parentKeyHash], itemValuesMap[itemKey])
                   ELSE Get(st.valueStore, parentKeyHash)
        pushed == IF hasNew THEN Append(removed, Val(newValue)) ELSE removed
        valueStore2 == IF hasValues
                       THEN IF Len(pushed) = 0 THEN Del(st.valueStore, parentKeyHash)
                            ELSE With(st.valueStore, parentKeyHash, pushed)
                       ELSE IF hasNew THEN With(st.valueStore, parentKeyHash, <<Val(newValue)>>)
                            ELSE st.valueStore
        currentValues == Get(valueStore2, parentKeyHash)
        oldAggregate == Get(st.aggregateValues, parentKeyHash)
        newAggregate == IF Len(currentValues) > 0 THEN Num(aggregateFn(cfg, currentValues)) ELSE Undef
    IN  [st |-> [valueStore |-> valueStore2,
                 aggregateValues |-> IF Len(currentValues) = 0
                                     THEN Del(st.aggregateValues, parentKeyHash)
                                     ELSE With(st.aggregateValues, parentKeyHash, newAggregate),
                 itemValues |-> With(itemValues1, parentKeyHash, itemValuesMap2)],
         emits |-> <<EmitToParent(keyPath, oldAggregate, newAggregate)>>]

MinMax_handleItemRemoved(cfg, st, keyPath, itemKey, item) ==
    LET parentKeyHash == computeKeyPathHash(keyPath)
        tracked == cfg.isPropertyMutable /\ Has(st.itemValues, parentKeyHash)
        itemValuesMap == IF tracked THEN st.itemValues[parentKeyHash] ELSE EmptyMap
        value == Get(item, cfg.numericProperty)
        \* valueToRemove, as an option
        valueToRemove == IF cfg.isPropertyMutable
                         THEN IF tracked /\ Has(itemValuesMap, itemKey)
                              THEN Num(itemValuesMap[itemKey]) ELSE Undef
                         ELSE value
        itemValues2 == IF tracked
                       THEN IF DOMAIN Del(itemValuesMap, itemKey) = {}
                            THEN Del(st.itemValues, parentKeyHash)
                            ELSE With(st.itemValues, parentKeyHash, Del(itemValuesMap, itemKey))
                       ELSE st.itemValues
        valueStore2 == IF valueToRemove # Undef /\ Has(st.valueStore, parentKeyHash)
                       THEN LET left == RemoveFirst(st.valueStore[parentKeyHash], Val(valueToRemove))
                            IN  IF Len(left) = 0 THEN Del(st.valueStore, parentKeyHash)
                                ELSE With(st.valueStore, parentKeyHash, left)
                       ELSE st.valueStore
        values == Get(valueStore2, parentKeyHash)
        oldAggregate == Get(st.aggregateValues, parentKeyHash)
        newAggregate == IF Len(values) > 0 THEN Num(aggregateFn(cfg, values)) ELSE Undef
    IN  [st |-> [valueStore |-> valueStore2,
                 aggregateValues |-> IF Len(values) = 0
                                     THEN Del(st.aggregateValues, parentKeyHash)
                                     ELSE With(st.aggregateValues, parentKeyHash, newAggregate),
                 itemValues |-> itemValues2],
         emits |-> <<EmitToParent(keyPath, oldAggregate, newAggregate)>>]

\* ----------------------------------------------------- AverageAggregateStep
RECURSIVE GCD(_, _)
GCD(a, b) == IF b = 0 THEN a ELSE GCD(b, a % b)

\* sum / count as an exact rational in lowest terms, <<numerator, denominator>>
Divide(sum, count) == LET g == GCD(sum, count) IN <<sum \div g, count \div g>>

AverageInit == [averageStates |-> EmptyMap, aggregateValues |-> EmptyMap, itemValues |-> EmptyMap]

NoAverageState == [sum |-> 0, count |-> 0, average |-> Undef]

Average_handleItemAdded(cfg, st, keyPath, itemKey, item) ==
    LET parentKeyHash == computeKeyPathHash(keyPath)
        itemValues1 == IF Has(st.itemValues, parentKeyHash) THEN st.itemValues
                       ELSE With(st.itemValues, parentKeyHash, EmptyMap)
        value == Get(item, cfg.numericProperty)
    IN  IF cfg.isPropertyMutable /\ value = Undef
        THEN [st |-> [st EXCEPT !.itemValues = itemValues1], emits |-> <<>>]
        ELSE LET numeric == value # Undef
                 itemValues2 == IF numeric
                                THEN With(itemValues1, parentKeyHash,
                                          With(itemValues1[parentKeyHash], itemKey, Val(value)))
                                ELSE itemValues1
                 prev == IF Has(st.averageStates, parentKeyHash)
                         THEN st.averageStates[parentKeyHash] ELSE NoAverageState
                 averageStates2 ==
                     IF numeric
                     THEN With(st.averageStates, parentKeyHash,
                               [sum |-> prev.sum + Val(value), count |-> prev.count + 1,
                                average |-> Num(Divide(prev.sum + Val(value), prev.count + 1))])
                     ELSE st.averageStates
                 oldAverage == Get(st.aggregateValues, parentKeyHash)
                 newAverage == IF Has(averageStates2, parentKeyHash)
                                  /\ averageStates2[parentKeyHash].count > 0
                               THEN averageStates2[parentKeyHash].average ELSE Undef
             IN  [st |-> [averageStates |-> averageStates2,
                          aggregateValues |-> With(st.aggregateValues, parentKeyHash, newAverage),
                          itemValues |-> itemValues2],
                  emits |-> <<EmitToParent(keyPath, oldAverage, newAverage)>>]

\* treats every change as a value arriving: the count grows as well
Average_change_asArrival(state, oldNum, newNum) ==
    IF newNum # Undef
    THEN [sum |-> state.sum + Val(newNum), count |-> state.count + 1]
    ELSE IF oldNum # Undef
    THEN [sum |-> state.sum - Val(oldNum), count |-> state.count - 1]
    ELSE [sum |-> state.sum, count |-> state.count]

\* "Update sum and count based on what changed": oldNum and newNum are options
Average_change(state, oldNum, newNum) ==
    IF oldNum # Undef /\ newNum # Undef
    THEN [sum |-> state.sum - Val(oldNum) + Val(newNum), count |-> state.count]
    ELSE IF oldNum = Undef /\ newNum # Undef
    THEN [sum |-> state.sum + Val(newNum), count |-> state.count + 1]
    ELSE IF oldNum # Undef /\ newNum = Undef
    THEN [sum |-> state.sum - Val(oldNum), count |-> state.count - 1]
    ELSE [sum |-> state.sum, count |-> state.count]

Average_handleItemPropertyChanged(cfg, st, keyPath, itemKey, oldValue, newValue) ==
    LET parentKeyHash == computeKeyPathHash(keyPath)
        itemValues1 == IF Has(st.itemValues, parentKeyHash) THEN st.itemValues
                       ELSE With(st.itemValues, parentKeyHash, EmptyMap)
        itemValuesMap == itemValues1[parentKeyHash]
        hadOldValue == Has(itemValuesMap, itemKey)
        hasNewValue == newValue # Undef
        itemValuesMap2 == IF hasNewValue THEN With(itemValuesMap, itemKey, Val(newValue))
                          ELSE Del(itemValuesMap, itemKey)
        state == IF Has(st.averageStates, parentKeyHash)
                 THEN st.averageStates[parentKeyHash] ELSE NoAverageState
        oldAverage == state.average
        changed == Average_change(state, IF hadOldValue THEN Num(itemValuesMap[itemKey]) ELSE Undef,
                                  newValue)
        sum2 == changed.sum
        count2 == changed.count
        newAverage == IF count2 > 0 THEN Num(Divide(sum2, count2)) ELSE Undef
    IN  [st |-> [averageStates |-> IF count2 > 0
                                   THEN With(st.averageStates, parentKeyHash,
                                             [sum |-> sum2, count |-> count2, average |-> newAverage])
                                   ELSE Del(st.averageStates, parentKeyHash),
                 aggregateValues |-> IF newAverage # Undef
                                     THEN With(st.aggregateValues, parentKeyHash, newAverage)
                                     ELSE Del(st.aggregateValues, parentKeyHash),
                 itemValues |-> With(itemValues1, parentKeyHash, itemValuesMap2)],
         emits |-> <<EmitToParent(keyPath, oldAverage, newAverage)>>]

Average_handleItemRemoved(cfg, st, keyPath, itemKey, item) ==
    LET parentKeyHash == computeKeyPathHash(keyPath)
        tracked == cfg.isPropertyMutable /\ Has(st.itemValues, parentKeyHash)
        itemValuesMap == IF tracked THEN st.itemValues[parentKeyHash] ELSE EmptyMap
        value == Get(item, cfg.numericProperty)
        valueToRemove == IF cfg.isPropertyMutable
                         THEN IF tracked /\ Has(itemValuesMap, itemKey)
                              THEN Num(itemValuesMap[itemKey]) ELSE Undef
                         ELSE value
        itemValues2 == IF tracked
                       THEN IF DOMAIN Del(itemValuesMap, itemKey) = {}
                            THEN Del(st.itemValues, parentKeyHash)
                            ELSE With(st.itemValues, parentKeyHash, Del(itemValuesMap, itemKey))
                       ELSE st.itemValues
        averageStates2 ==
            IF valueToRemove # Undef /\ Has(st.averageStates, parentKeyHash)
            THEN LET state == st.averageStates[parentKeyHash]
                     sum2 == state.sum - Val(valueToRemove)
                     count2 == state.count - 1
                 IN  IF count2 = 0 THEN Del(st.averageStates, parentKeyHash)
                     ELSE With(st.averageStates, parentKeyHash,
                               [sum |-> sum2, count |-> count2,
                                average |-> Num(Divide(sum2, count2))])
            ELSE st.averageStates
        live == Has(averageStates2, parentKeyHash) /\ averageStates2[parentKeyHash].count > 0
        oldAverage == Get(st.aggregateValues, parentKeyHash)
        newAverage == IF live THEN averageStates2[parentKeyHash].average ELSE Undef
    IN  [st |-> [averageStates |-> averageStates2,
                 aggregateValues |-> IF ~live THEN Del(st.aggregateValues, parentKeyHash)
                                     ELSE With(st.aggregateValues, parentKeyHash, newAverage),
                 itemValues |-> itemValues2],
         emits |-> <<EmitToParent(keyPath, oldAverage, newAverage)>>]

\* --------------------------------------------------------- PickByMinMaxStep
\* A JavaScript Map whose iteration order is used: a sequence of entries
\* [k, v]; set() on an existing key keeps the entry's position.
SeqHas(m, k) == \E i \in 1..Len(m) : m[i].k = k

SeqGet(m, k) == m[CHOOSE i \in 1..Len(m) : m[i].k = k].v

SeqPut(m, k, v) ==
    IF SeqHas(m, k)
    THEN [i \in 1..Len(m) |-> IF m[i].k = k THEN [k |-> k, v |-> v] ELSE m[i]]
    ELSE Append(m, [k |-> k, v |-> v])

SeqDel(m, k) == SelectSeq(m, LAMBDA e : e.k # k)

PickInit ==
    [itemStore |-> <<>>, pickedItemStore |-> EmptyMap, comparisonValueStore |-> EmptyMap,
     pickedItemValues |-> EmptyMap, itemData |-> EmptyMap]

\* a comparison that lets an equal value win
compareFn_orEqual(cfg, value1, value2) ==
    IF cfg.compareFn = "min" THEN value1 <= value2 ELSE value1 >= value2

compareFn(cfg, value1, value2) ==
    IF cfg.compareFn = "min" THEN value1 < value2 ELSE value1 > value2

\* pickedItem is an option: Undef or <<row>>
Pick_emitModification(st, parentKeyPath, pickedItem) ==
    LET parentKeyHash == computeKeyPathHash(parentKeyPath)
        oldPickedItem == Get(st.pickedItemValues, parentKeyHash)
    IN  [st |-> [st EXCEPT !.pickedItemValues =
                     IF pickedItem = Undef THEN Del(st.pickedItemValues, parentKeyHash)
                     ELSE With(st.pickedItemValues, parentKeyHash, pickedItem)],
         emits |-> <<EmitToParent(parentKeyPath, oldPickedItem, pickedItem)>>]

Pick_clear(st, parentKeyPath) ==
    LET parentKeyHash == computeKeyPathHash(parentKeyPath)
    IN  Pick_emitModification(
            [st EXCEPT !.pickedItemStore = Del(st.pickedItemStore, parentKeyHash),
                       !.comparisonValueStore = Del(st.comparisonValueStore, parentKeyHash)],
            parentKeyPath, Undef)

Pick_set(st, parentKeyPath, item, value) ==
    LET parentKeyHash == computeKeyPathHash(parentKeyPath)
    IN  Pick_emitModification(
            [st EXCEPT !.pickedItemStore = With(st.pickedItemStore, parentKeyHash, item),
                       !.comparisonValueStore = With(st.comparisonValueStore, parentKeyHash, value)],
            parentKeyPath, Num(item))

\* The scan loops: the first entry met wins unless a later one is strictly
\* better.  best is Undef or <<entry>>.
RECURSIVE BestData(_, _, _)
BestData(cfg, entries, best) ==
    IF entries = <<>> THEN best
    ELSE LET data == Head(entries).v
             isBetter == data.value # Undef
                         /\ (best = Undef \/ compareFn(cfg, Val(data.value), Val(Val(best).value)))
         IN  BestData(cfg, Tail(entries), IF isBetter THEN Num(data) ELSE best)

Pick_recalculatePickFromItemData(cfg, st, parentKeyPath) ==
    LET parentKeyHash == computeKeyPathHash(parentKeyPath)
        itemDataMap == Get(st.itemData, parentKeyHash)
        best == BestData(cfg, itemDataMap, Undef)
    IN  IF ~Has(st.itemData, parentKeyHash) \/ Len(itemDataMap) = 0 \/ best = Undef
        THEN Pick_clear(st, parentKeyPath)
        ELSE LET data == Val(best)
                 pickedItemWithValue == With(Merge(data.immutableProps, data.mutableProps),
                                             cfg.comparisonProperty, data.value)
             IN  Pick_set(st, parentKeyPath, pickedItemWithValue, Val(data.value))

RECURSIVE BestItem(_, _, _)
BestItem(cfg, items, best) ==
    IF items = <<>> THEN best
    ELSE LET item == Head(items)
             value == Val(Get(item, cfg.comparisonProperty))
             better == best = Undef
                       \/ compareFn(cfg, value, Val(Get(Val(best), cfg.comparisonProperty)))
         IN  BestItem(cfg, Tail(items), IF better THEN Num(item) ELSE best)

Pick_recalculatePickedItem(cfg, st, parentKeyPath) ==
    LET parentKeyHash == computeKeyPathHash(parentKeyPath)
        ofParent == SelectSeq(st.itemStore,
                        LAMBDA e : /\ Len(e.k) > Len(parentKeyHash)
                                   /\ pathStartsWith(e.k, parentKeyHash)
                                   /\ Get(e.v, cfg.comparisonProperty) # Undef)
        itemsForParent == [i \in 1..Len(ofParent) |-> ofParent[i].v]
    IN  IF Len(itemsForParent) = 0
        THEN Pick_clear(st, parentKeyPath)
        ELSE LET pickedItem == Val(BestItem(cfg, itemsForParent, Undef))
             IN  Pick_set(st, parentKeyPath, pickedItem,
                          Val(Get(pickedItem, cfg.comparisonProperty)))

\* compares object identity (item1 === item2): the row handed to removed is
\* never the stored object, so the picked row is never recognised
itemsEqual_byIdentity(item1, item2) == FALSE /\ item1 = item2

itemsEqual(item1, item2) ==
    /\ Cardinality(DOMAIN item1) = Cardinality(DOMAIN item2)
    /\ \A key \in DOMAIN item1 : key \in DOMAIN item2 /\ item1[key] = item2[key]

Pick_handleItemAdded(cfg, st, keyPath, itemKey, item) ==
    LET parentKeyHash == computeKeyPathHash(keyPath)
        itemKeyHash == computeKeyPathHash(Append(keyPath, itemKey))
        st1 == [st EXCEPT !.itemStore = SeqPut(st.itemStore, itemKeyHash, item)]
        value == Get(item, cfg.comparisonProperty)
    IN  IF cfg.isPropertyMutable
        THEN LET itemDataMap == Get(st1.itemData, parentKeyHash)
                 entry == [value |-> value, immutableProps |-> item, mutableProps |-> EmptyMap]
                 st2 == [st1 EXCEPT !.itemData =
                            With(st1.itemData, parentKeyHash, SeqPut(itemDataMap, itemKeyHash, entry))]
             IN  Pick_recalculatePickFromItemData(cfg, st2, keyPath)
        ELSE IF value = Undef
        THEN IF ~Has(st1.pickedItemStore, parentKeyHash)
             THEN Pick_emitModification(st1, keyPath, Undef)
             ELSE [st |-> st1, emits |-> <<>>]
        ELSE LET shouldUpdate ==
                     \/ ~Has(st1.comparisonValueStore, parentKeyHash)
                     \/ compareFn(cfg, Val(value), st1.comparisonValueStore[parentKeyHash])
             IN  IF shouldUpdate THEN Pick_set(st1, keyPath, item, Val(value))
                 ELSE [st |-> st1, emits |-> <<>>]

Pick_handleMutablePropertyChanged(cfg, st, keyPath, itemKey, property, newValue) ==
    LET parentKeyHash == computeKeyPathHash(keyPath)
        itemKeyHash == computeKeyPathHash(Append(keyPath, itemKey))
    IN  IF ~Has(st.itemData, parentKeyHash) \/ ~SeqHas(st.itemData[parentKeyHash], itemKeyHash)
        THEN [st |-> st, emits |-> <<>>]
        ELSE LET data == SeqGet(st.itemData[parentKeyHash], itemKeyHash)
                 data2 == [value |-> IF property = cfg.comparisonProperty THEN newValue ELSE data.value,
                           immutableProps |-> data.immutableProps,
                           mutableProps |-> IF newValue # Undef
                                            THEN With(data.mutableProps, property, newValue)
                                            ELSE data.mutableProps]
                 st2 == [st EXCEPT !.itemData =
                            With(st.itemData, parentKeyHash,
                                 SeqPut(st.itemData[parentKeyHash], itemKeyHash, data2))]
             IN  Pick_recalculatePickFromItemData(cfg, st2, keyPath)

Pick_handleItemRemoved(cfg, st, keyPath, itemKey, item) ==
    LET parentKeyHash == computeKeyPathHash(keyPath)
        itemKeyHash == computeKeyPathHash(Append(keyPath, itemKey))
        st1 == [st EXCEPT !.itemStore = SeqDel(st.itemStore, itemKeyHash)]
    IN  IF cfg.isPropertyMutable
        THEN LET st2 == IF Has(st1.itemData, parentKeyHash)
                        THEN LET left == SeqDel(st1.itemData[parentKeyHash], itemKeyHash)
                             IN  [st1 EXCEPT !.itemData =
                                     IF Len(left) = 0 THEN Del(st1.itemData, parentKeyHash)
                                     ELSE With(st1.itemData, parentKeyHash, left)]
                        ELSE st1
             IN  Pick_recalculatePickFromItemData(cfg, st2, keyPath)
        ELSE IF Has(st1.pickedItemStore, parentKeyHash)
                /\ itemsEqual(item, st1.pickedItemStore[parentKeyHash])
             THEN Pick_recalculatePickedItem(cfg, st1, keyPath)
             ELSE [st |-> st1, emits |-> <<>>]

\* ============================================================== step events
\* What a step hands to the handlers registered with it.  `single` marks a
\* modified event that is handed to one stored handler only (the filter's
\* replay) instead of to every handler registered for it.
AddedEvent(pathSegments, keyPath, key, immutableProps) ==
    [type |-> "added", pathSegments |-> pathSegments, keyPath |-> keyPath, key |-> key,
     immutableProps |-> immutableProps, propertyName |-> "",
     oldValue |-> Undef, newValue |-> Undef, single |-> FALSE]

RemovedEvent(pathSegments, keyPath, key, immutableProps) ==
    [type |-> "removed", pathSegments |-> pathSegments, keyPath |-> keyPath, key |-> key,
     immutableProps |-> immutableProps, propertyName |-> "",
     oldValue |-> Undef, newValue |-> Undef, single |-> FALSE]

ModifiedEvent(pathSegments, propertyName, keyPath, key, oldValue, newValue) ==
    [type |-> "modified", pathSegments |-> pathSegments, keyPath |-> keyPath, key |-> key,
     immutableProps |-> EmptyMap, propertyName |-> propertyName,
     oldValue |-> oldValue, newValue |-> newValue, single |-> FALSE]

\* a step that hands on added and removed events only
Forward_noModified(st, e) == [st |-> st, out |-> IF e.type = "modified" THEN <<>> ELSE <<e>>]

\* the result of a step for an event it does not intercept
Forward(st, e) == [st |-> st, out |-> <<e>>]

\* ------------------------------------------------------------- input step
\* Pipeline.add / Pipeline.remove on the pipeline's input: the row enters at
\* the root path.
Input_add(key, immutableProps) == <<AddedEvent(<<>>, <<>>, key, immutableProps)>>

Input_remove(key, immutableProps) == <<RemovedEvent(<<>>, <<>>, key, immutableProps)>>

\* -------------------------------------------------------------- GroupByStep
\* groups: key path of a group row -> number of members.  The group key is
\* a hash of the canonical grouping subset; with one grouping property it is
\* modelled by the value of that property, which is injective as the hash is.
GroupByInit == [groups |-> EmptyMap]

GroupBy_groupKey(cfg, immutableProps) == immutableProps[cfg.groupingProperty]

GroupBy_handleAdded(cfg, st, e) ==
    LET groupKey == GroupBy_groupKey(cfg, e.immutableProps)
        groupPath == e.keyPath \o <<groupKey>>
        isNew == ~Has(st.groups, groupPath)
        memberCount == IF isNew THEN 0 ELSE st.groups[groupPath]
        groupAdded == AddedEvent(cfg.scopeSegments, e.keyPath, groupKey,
                                 Restrict(e.immutableProps, {cfg.groupingProperty}))
        childAdded == AddedEvent(cfg.scopeSegments \o <<cfg.arrayName>>, groupPath, e.key,
                                 Without(e.immutableProps, {cfg.groupingProperty}))
    IN  [st |-> [groups |-> With(st.groups, groupPath, memberCount + 1)],
         out |-> (IF isNew THEN <<groupAdded>> ELSE <<>>) \o <<childAdded>>]

\* a removal that never takes the group row away
GroupBy_handleRemoved_keepsGroup(cfg, st, e) ==
    [st |-> st,
     out |-> <<RemovedEvent(cfg.scopeSegments \o <<cfg.arrayName>>,
                            e.keyPath \o <<GroupBy_groupKey(cfg, e.immutableProps)>>, e.key,
                            Without(e.immutableProps, {cfg.groupingProperty}))>>]

GroupBy_handleRemoved(cfg, st, e) ==
    LET groupKey == GroupBy_groupKey(cfg, e.immutableProps)
        groupPath == e.keyPath \o <<groupKey>>
        memberCount == Get(st.groups, groupPath)
        childRemoved == RemovedEvent(cfg.scopeSegments \o <<cfg.arrayName>>, groupPath, e.key,
                                     Without(e.immutableProps, {cfg.groupingProperty}))
        groupRemoved == RemovedEvent(cfg.scopeSegments, e.keyPath, groupKey,
                                     Restrict(e.immutableProps, {cfg.groupingProperty}))
    IN  IF ~Has(st.groups, groupPath)
        THEN [st |-> st, out |-> <<childRemoved>>]
        ELSE IF memberCount = 1
             THEN [st |-> [groups |-> Del(st.groups, groupPath)],
                   out |-> <<childRemoved, groupRemoved>>]
             ELSE [st |-> [groups |-> With(st.groups, groupPath, memberCount - 1)],
                   out |-> <<childRemoved>>]

\* Mutable grouping: the step also keeps, per row, the props the row's
\* current group was computed from.
GroupByMutableInit == [groups |-> EmptyMap, rows |-> EmptyMap]

\* a regrouping that announces the row under its new group before it takes
\* it out of the old one
GroupBy_handleModified_addFirst(cfg, st, e) ==
    LET row == <<e.keyPath, e.key>>
        oldProps == st.rows[row]
        newProps == With(oldProps, e.propertyName, e.newValue)
        added == GroupBy_handleAdded(cfg, [groups |-> st.groups],
                     AddedEvent(e.pathSegments, e.keyPath, e.key, newProps))
        removed == GroupBy_handleRemoved(cfg, added.st,
                       RemovedEvent(e.pathSegments, e.keyPath, e.key, oldProps))
    IN  [st |-> [groups |-> removed.st.groups, rows |-> With(st.rows, row, newProps)],
         out |-> IF GroupBy_groupKey(cfg, newProps) = GroupBy_groupKey(cfg, oldProps)
                 THEN <<>> ELSE added.out \o removed.out]

\* on a modification of a mutable grouping property: recompute the group
\* key of the row; when it differs, the row leaves its group as on removed
\* and enters the new one as on added
GroupBy_handleModified(cfg, st, e) ==
    LET row == <<e.keyPath, e.key>>
    IN  IF ~Has(st.rows, row)
        THEN [st |-> st, out |-> <<>>]
        ELSE LET oldProps == st.rows[row]
                 newProps == With(oldProps, e.propertyName, e.newValue)
                 removed == GroupBy_handleRemoved(cfg, [groups |-> st.groups],
                                RemovedEvent(e.pathSegments, e.keyPath, e.key, oldProps))
                 added == GroupBy_handleAdded(cfg, removed.st,
                              AddedEvent(e.pathSegments, e.keyPath, e.key, newProps))
             IN  IF GroupBy_groupKey(cfg, newProps) = GroupBy_groupKey(cfg, oldProps)
                 THEN [st |-> [st EXCEPT !.rows = With(@, row, newProps)], out |-> <<>>]
                 ELSE [st |-> [groups |-> added.st.groups,
                               rows |-> With(st.rows, row, newProps)],
                       out |-> removed.out \o added.out]

GroupByMutableStep(cfg, st, e) ==
    LET row == <<e.keyPath, e.key>>
        Tracked(r, rows) == [st |-> [groups |-> r.st.groups, rows |-> rows], out |-> r.out]
    IN  IF ~pathsMatch(e.pathSegments, cfg.scopeSegments)
        THEN Forward(st, e)
        ELSE CASE e.type = "added" ->
                    Tracked(GroupBy_handleAdded(cfg, [groups |-> st.groups], e),
                            With(st.rows, row, e.immutableProps))
               [] e.type = "removed" ->
                    Tracked(GroupBy_handleRemoved(cfg, [groups |-> st.groups], e),
                            Del(st.rows, row))
               [] OTHER ->
                    IF e.propertyName = cfg.groupingProperty
                    THEN GroupBy_handleModified(cfg, st, e)
                    ELSE Forward(st, e)

GroupByStep(cfg, st, e) ==
    IF cfg.mutableGrouping
    THEN GroupByMutableStep(cfg, st, e)
    ELSE IF pathsMatch(e.pathSegments, cfg.scopeSegments) /\ e.type = "added"
         THEN GroupBy_handleAdded(cfg, st, e)
         ELSE IF pathsMatch(e.pathSegments, cfg.scopeSegments) /\ e.type = "removed"
              THEN GroupBy_handleRemoved(cfg, st, e)
              ELSE Forward(st, e)

\* ------------------------------------- MinMaxAggregateStep inside a pipeline
\* isParentPath: the aggregate property lives on the row one level up
MinMax_parentPath(cfg) == Front(cfg.segmentPath)

MinMax_emit(cfg, emits) ==
    [i \in 1..Len(emits) |->
        ModifiedEvent(MinMax_parentPath(cfg), cfg.propertyName, emits[i].keyPath,
                      emits[i].key, emits[i].old, emits[i].new)]

\* The handlers the constructor registered run before the handlers that
\* later steps registered with onAdded / onRemoved / onModified, which the
\* step passes on to its input.
MinMaxStep(cfg, st, e) ==
    LET Handled(r) == [st |-> r.st, out |-> MinMax_emit(cfg, r.emits) \o <<e>>]
    IN  IF ~pathsMatch(e.pathSegments, cfg.segmentPath)
        THEN Forward(st, e)
        ELSE CASE e.type = "added" ->
                    Handled(MinMax_handleItemAdded(cfg, st, e.keyPath, e.key, e.immutableProps))
               [] e.type = "removed" ->
                    Handled(MinMax_handleItemRemoved(cfg, st, e.keyPath, e.key,
                                                     e.immutableProps))
               [] OTHER ->
                    IF cfg.isPropertyMutable /\ e.propertyName = cfg.numericProperty
                    THEN Handled(MinMax_handleItemPropertyChanged(cfg, st, e.keyPath, e.key,
                                                                  e.oldValue, e.newValue))
                    ELSE Forward(st, e)

\* -------------------------------------------------------- DefinePropertyStep
\* itemStates: item key -> the row's cached state (the Map is keyed by the
\* item key alone). handed is history, not a field of the step: the row
\* <<keyPath, key>> -> the value of the defined property last handed
\* downstream for it, in an added or a modified event.
DefinePropertyInit == [itemStates |-> EmptyMap, handed |-> EmptyMap]

\* the compute function of the pipelines studied here:
\*   item => item.top > Threshold ? item.top * 2 : item.top
compute(item) ==
    LET top == Get(item, "top")
    IN  IF top # Undef /\ Val(top) > Threshold THEN Num(2 * Val(top)) ELSE top

DefineProperty_composeItem(cfg, immutableProps, mutableValues) ==
    Merge(immutableProps, [propName \in cfg.mutableProperties |-> Get(mutableValues, propName)])

DefineProperty_handleMutablePropertyChange(cfg, st, keyPath, key, propertyName, oldValue, newValue) ==
    IF ~Has(st.itemStates, key)
    THEN [st |-> st, out |-> <<>>]
    ELSE LET itemState == st.itemStates[key]
             mutableValues == With(itemState.mutableValues, propertyName, newValue)
             composedItem == DefineProperty_composeItem(cfg, itemState.immutableProps, mutableValues)
             newComputedValue == compute(composedItem)
             oldComputedValue == itemState.computedValue
             itemState2 == [itemState EXCEPT !.mutableValues = mutableValues,
                                              !.computedValue = newComputedValue]
         IN  [st |-> [itemStates |-> With(st.itemStates, key, itemState2),
                      handed |-> IF oldComputedValue # newComputedValue
                                 THEN With(st.handed, <<keyPath, key>>, newComputedValue)
                                 ELSE st.handed],
              out |-> IF oldComputedValue # newComputedValue
                      THEN <<ModifiedEvent(cfg.scopeSegments, cfg.propertyName, keyPath, key,
                                           oldComputedValue, newComputedValue)>>
                      ELSE <<>>]

DefineProperty_onAdded(cfg, st, e) ==
    LET mutableValues == [propName \in cfg.mutableProperties |-> Get(e.immutableProps, propName)]
        composedItem == DefineProperty_composeItem(cfg, e.immutableProps, mutableValues)
        computedValue == compute(composedItem)
    IN  [st |-> [itemStates |-> With(st.itemStates, e.key,
                                     [immutableProps |-> e.immutableProps,
                                      mutableValues |-> mutableValues,
                                      computedValue |-> computedValue,
                                      keyPath |-> e.keyPath]),
                 handed |-> With(st.handed, <<e.keyPath, e.key>>, computedValue)],
         out |-> <<AddedEvent(e.pathSegments, e.keyPath, e.key,
                              With(e.immutableProps, cfg.propertyName, computedValue))>>]

\* The wrapper of the first handler registered for removed at the scope;
\* wrappers of later handlers find the state deleted and take the fallback.
DefineProperty_onRemoved(cfg, st, e) ==
    IF Has(st.itemStates, e.key)
    THEN LET itemState == st.itemStates[e.key]
             composedItem == DefineProperty_composeItem(cfg, e.immutableProps,
                                                        itemState.mutableValues)
             computedValue == compute(composedItem)
         IN  [st |-> [itemStates |-> Del(st.itemStates, e.key),
                      handed |-> Del(st.handed, <<e.keyPath, e.key>>)],
              out |-> <<RemovedEvent(e.pathSegments, e.keyPath, e.key,
                                     With(e.immutableProps, cfg.propertyName, computedValue))>>]
    ELSE [st |-> [st EXCEPT !.handed = Del(st.handed, <<e.keyPath, e.key>>)],
          out |-> <<RemovedEvent(e.pathSegments, e.keyPath, e.key,
                                 With(e.immutableProps, cfg.propertyName,
                                      compute(e.immutableProps)))>>]

\* onRemoved wraps every handler registered at the scope in a wrapper of its
\* own; for one upstream removed the wrappers run in the order of their
\* registration, each on the state the one before it left. The events the
\* first n handlers are handed.
RECURSIVE DefineProperty_onRemoved_handlers(_, _, _, _)
DefineProperty_onRemoved_handlers(cfg, st, e, n) ==
    IF n = 0 THEN <<>>
    ELSE LET Then(r) == r.out \o DefineProperty_onRemoved_handlers(cfg, r.st, e, n - 1)
         IN  Then(DefineProperty_onRemoved(cfg, st, e))

DefinePropertyStep(cfg, st, e) ==
    IF ~pathsMatch(e.pathSegments, cfg.scopeSegments)
    THEN Forward(st, e)
    ELSE CASE e.type = "added" -> DefineProperty_onAdded(cfg, st, e)
           [] e.type = "removed" -> DefineProperty_onRemoved(cfg, st, e)
           [] OTHER ->
                IF e.propertyName \in cfg.mutableProperties
                THEN LET r == DefineProperty_handleMutablePropertyChange(
                                  cfg, st, e.keyPath, e.key, e.propertyName,
                                  e.oldValue, e.newValue)
                     IN  [st |-> r.st, out |-> r.out \o <<e>>]
                ELSE Forward(st, e)

\* The state of the step when the first downstream handler it invokes for
\* the event throws: what the wrapper has assigned before that invocation.
\* The wrapper for removed at the scope calls the handler and deletes the
\* row's state after it.
DefineProperty_whenHandlerThrows(cfg, st, e) ==
    IF ~pathsMatch(e.pathSegments, cfg.scopeSegments)
    THEN st
    ELSE CASE e.type = "added" -> DefineProperty_onAdded(cfg, st, e).st
           [] e.type = "removed" -> st
           [] OTHER ->
                IF e.propertyName \in cfg.mutableProperties
                THEN DefineProperty_handleMutablePropertyChange(
                         cfg, st, e.keyPath, e.key, e.propertyName,
                         e.oldValue, e.newValue).st
                ELSE st

\* ----------------------------------------------------------------- FilterStep
\* itemStates: item key -> the row's state; pendingNestedAdds and
\* pendingNestedModifications: parent key -> the events held back, in order.
\* arrived and stopped are history, not fields of the step: arrived is
\* parent key -> the events of both buffers in the order in which the filter
\* held them back, stopped the tracked rows that have gone from passing to
\* not passing since they were added.
FilterInit ==
    [itemStates |-> EmptyMap, pendingNestedAdds |-> EmptyMap,
     pendingNestedModifications |-> EmptyMap, arrived |-> EmptyMap, stopped |-> {}]

\* the predicate of the pipelines studied here: item => item.top > Threshold
predicate(item) ==
    LET top == Get(item, "top") IN top # Undef /\ Val(top) > Threshold

Filter_composeItem(cfg, immutableProps, mutableValues) ==
    Merge(immutableProps, [propName \in cfg.mutableProperties |-> Get(mutableValues, propName)])

evaluatePredicate(cfg, immutableProps, mutableValues) ==
    predicate(Filter_composeItem(cfg, immutableProps, mutableValues))

\* "" stands for undefined: both fail the test `if (parentKey)`
getParentKeyFromKeyPath(cfg, keyPath) ==
    IF Len(cfg.scopeSegments) = 0 /\ Len(keyPath) > 0 THEN keyPath[1] ELSE ""

isNestedPath(cfg, pathSegments) ==
    Len(pathSegments) > Len(cfg.scopeSegments) /\ pathStartsWith(pathSegments, cfg.scopeSegments)

isAtScopeSegments(cfg, pathSegments) == pathsMatch(pathSegments, cfg.scopeSegments)

\* a replay that hands out the held-back modifications before the adds
replayPendingNestedOperations_modificationsFirst(st, parentKey) ==
    LET pendingAdds == Get(st.pendingNestedAdds, parentKey)
        pendingMods == Get(st.pendingNestedModifications, parentKey)
    IN  [st |-> [st EXCEPT !.pendingNestedAdds = Del(st.pendingNestedAdds, parentKey),
                           !.pendingNestedModifications =
                               Del(st.pendingNestedModifications, parentKey),
                           !.arrived = Del(st.arrived, parentKey)],
         out |-> [i \in 1..Len(pendingMods) |-> [pendingMods[i] EXCEPT !.single = TRUE]]
                 \o pendingAdds]

\* the held-back adds, then the held-back modifications, each handed to the
\* handler stored for its path; both buffers of the parent are dropped
replayPendingNestedOperations(st, parentKey) ==
    LET pendingAdds == Get(st.pendingNestedAdds, parentKey)
        pendingMods == Get(st.pendingNestedModifications, parentKey)
    IN  [st |-> [st EXCEPT !.pendingNestedAdds = Del(st.pendingNestedAdds, parentKey),
                           !.pendingNestedModifications =
                               Del(st.pendingNestedModifications, parentKey),
                           !.arrived = Del(st.arrived, parentKey)],
         out |-> pendingAdds \o [i \in 1..Len(pendingMods) |->
                                    [pendingMods[i] EXCEPT !.single = TRUE]]]

Filter_handleMutablePropertyChange(cfg, st, keyPath, key, propertyName, oldValue, newValue) ==
    IF ~Has(st.itemStates, key)
    THEN [st |-> st, out |-> <<>>]
    ELSE LET itemState == st.itemStates[key]
             mutableValues == With(itemState.mutableValues, propertyName, newValue)
             nowPasses == evaluatePredicate(cfg, itemState.immutableProps, mutableValues)
             previouslyPassed == itemState.passed
             composedItem == Filter_composeItem(cfg, itemState.immutableProps, mutableValues)
             updated(passed) ==
                 [st EXCEPT !.itemStates =
                     With(st.itemStates, key,
                          [itemState EXCEPT !.mutableValues = mutableValues,
                                            !.passed = passed])]
         IN  IF nowPasses /\ ~previouslyPassed
             THEN LET replay == replayPendingNestedOperations(updated(TRUE), key)
                  IN  [st |-> replay.st,
                       out |-> <<AddedEvent(cfg.scopeSegments, itemState.keyPath, key,
                                            composedItem)>> \o replay.out]
             ELSE IF ~nowPasses /\ previouslyPassed
                  THEN [st |-> [updated(FALSE) EXCEPT !.stopped = @ \cup {key}],
                        out |-> <<RemovedEvent(cfg.scopeSegments, itemState.keyPath, key,
                                               composedItem)>>]
                  ELSE [st |-> updated(previouslyPassed), out |-> <<>>]

Filter_passed(st, key) == Has(st.itemStates, key) /\ st.itemStates[key].passed

Filter_onAdded(cfg, st, e) ==
    IF isAtScopeSegments(cfg, e.pathSegments)
    THEN LET mutableValues == [propName \in cfg.mutableProperties |->
                                  Get(e.immutableProps, propName)]
             passes == evaluatePredicate(cfg, e.immutableProps, mutableValues)
         IN  [st |-> [st EXCEPT !.itemStates =
                         With(st.itemStates, e.key,
                              [immutableProps |-> e.immutableProps,
                               mutableValues |-> mutableValues,
                               keyPath |-> e.keyPath, passed |-> passes]),
                                !.stopped = @ \ {e.key}],
              out |-> IF passes THEN <<e>> ELSE <<>>]
    ELSE IF isNestedPath(cfg, e.pathSegments)
         THEN LET parentKey == getParentKeyFromKeyPath(cfg, e.keyPath)
              IN  IF parentKey # ""
                  THEN IF Filter_passed(st, parentKey)
                       THEN Forward(st, e)
                       ELSE [st |-> [st EXCEPT !.pendingNestedAdds =
                                        With(st.pendingNestedAdds, parentKey,
                                             Append(Get(st.pendingNestedAdds, parentKey), e)),
                                                !.arrived =
                                        With(st.arrived, parentKey,
                                             Append(Get(st.arrived, parentKey), e))],
                             out |-> <<>>]
                  ELSE Forward(st, e)
         ELSE Forward(st, e)

Filter_onRemoved(cfg, st, e) ==
    IF isAtScopeSegments(cfg, e.pathSegments)
    THEN [st |-> [itemStates |-> Del(st.itemStates, e.key),
                  pendingNestedAdds |-> Del(st.pendingNestedAdds, e.key),
                  pendingNestedModifications |-> Del(st.pendingNestedModifications, e.key),
                  arrived |-> Del(st.arrived, e.key),
                  stopped |-> st.stopped \ {e.key}],
          out |-> IF Filter_passed(st, e.key) THEN <<e>> ELSE <<>>]
    ELSE IF isNestedPath(cfg, e.pathSegments)
         THEN LET parentKey == getParentKeyFromKeyPath(cfg, e.keyPath)
              IN  IF parentKey # ""
                  THEN [st |-> st, out |-> IF Filter_passed(st, parentKey) THEN <<e>> ELSE <<>>]
                  ELSE Forward(st, e)
         ELSE Forward(st, e)

\* forwards for every tracked row, as a wrapper without the test on `passed`
Filter_forwardsAtScope_ifTracked(st, key) == Has(st.itemStates, key)

\* the test in the wrapper around a handler registered for modified at the scope

Filter_forwardsAtScope(st, key) == Filter_passed(st, key)

Filter_onModified(cfg, st, e) ==
    IF isAtScopeSegments(cfg, e.pathSegments)
    THEN [st |-> st, out |-> IF Filter_forwardsAtScope(st, e.key) THEN <<e>> ELSE <<>>]
    ELSE IF isNestedPath(cfg, e.pathSegments)
         THEN LET parentKey == getParentKeyFromKeyPath(cfg, e.keyPath)
              IN  IF parentKey # ""
                  THEN IF Filter_passed(st, parentKey)
                       THEN Forward(st, e)
                       ELSE [st |-> [st EXCEPT !.pendingNestedModifications =
                                        With(st.pendingNestedModifications, parentKey,
                                             Append(Get(st.pendingNestedModifications,
                                                        parentKey), e)),
                                                !.arrived =
                                        With(st.arrived, parentKey,
                                             Append(Get(st.arrived, parentKey), e))],
                             out |-> <<>>]
                  ELSE Forward(st, e)
         ELSE Forward(st, e)

\* The constructor registers handleMutablePropertyChange for the declared
\* dependencies only when the scope is the root; that handler runs before
\* the wrappers of handlers registered later.
FilterStep(cfg, st, e) ==
    CASE e.type = "added" -> Filter_onAdded(cfg, st, e)
      [] e.type = "removed" -> Filter_onRemoved(cfg, st, e)
      [] OTHER ->
           IF /\ Len(cfg.scopeSegments) = 0
              /\ isAtScopeSegments(cfg, e.pathSegments)
              /\ e.propertyName \in cfg.mutableProperties
           THEN LET r == Filter_handleMutablePropertyChange(
                             cfg, st, e.keyPath, e.key, e.propertyName,
                             e.oldValue, e.newValue)
                    w == Filter_onModified(cfg, r.st, e)
                IN  [st |-> w.st, out |-> r.out \o w.out]
           ELSE Filter_onModified(cfg, st, e)

\* The state handleMutablePropertyChange leaves when the handler it invokes
\* throws: the value and `passed` are assigned, the replay has not run.
Filter_handleMutablePropertyChange_whenHandlerThrows(cfg, st, key, propertyName, newValue) ==
    LET itemState == st.itemStates[key]
        mutableValues == With(itemState.mutableValues, propertyName, newValue)
        nowPasses == evaluatePredicate(cfg, itemState.immutableProps, mutableValues)
        previouslyPassed == itemState.passed
        updated(passed) ==
            [st EXCEPT !.itemStates =
                With(st.itemStates, key,
                     [itemState EXCEPT !.mutableValues = mutableValues,
                                       !.passed = passed])]
    IN  IF nowPasses /\ ~previouslyPassed
        THEN updated(TRUE)
        ELSE [updated(FALSE) EXCEPT !.stopped = @ \cup {key}]

\* The state of the step when the first downstream handler it invokes for
\* the event throws. The wrapper for added at the scope stores the row's
\* state before the call; the wrapper for removed at the scope calls the
\* handler and deletes the row's state and buffers after it; the wrappers
\* for nested paths assign nothing when they forward.
Filter_whenHandlerThrows(cfg, st, e) ==
    CASE e.type = "added" -> Filter_onAdded(cfg, st, e).st
      [] e.type = "removed" ->
           IF isAtScopeSegments(cfg, e.pathSegments) /\ Filter_passed(st, e.key)
           THEN st
           ELSE Filter_onRemoved(cfg, st, e).st
      [] OTHER ->
           IF /\ Len(cfg.scopeSegments) = 0
              /\ isAtScopeSegments(cfg, e.pathSegments)
              /\ e.propertyName \in cfg.mutableProperties
           THEN LET r == Filter_handleMutablePropertyChange(
                             cfg, st, e.keyPath, e.key, e.propertyName,
                             e.oldValue, e.newValue)
                IN  IF r.out # <<>>
                    THEN Filter_handleMutablePropertyChange_whenHandlerThrows(
                             cfg, st, e.key, e.propertyName, e.newValue)
                    ELSE Filter_onModified(cfg, r.st, e).st
           ELSE Filter_onModified(cfg, st, e).st

\* ========================================================= pipeline builder
\* The product of the builder methods: the step each one constructs.
groupBy(scopeSegments, groupingProperty, arrayName) ==
    [kind |-> "groupBy", scopeSegments |-> scopeSegments,
     groupingProperty |-> groupingProperty, arrayName |-> arrayName]

min(scopeSegments, arrayName, numericProperty, propertyName) ==
    [kind |-> "minmax", aggregateFn |-> "min",
     segmentPath |-> scopeSegments \o <<arrayName>>,
     propertyName |-> propertyName, numericProperty |-> numericProperty]

max(scopeSegments, arrayName, numericProperty, propertyName) ==
    [kind |-> "minmax", aggregateFn |-> "max",
     segmentPath |-> scopeSegments \o <<arrayName>>,
     propertyName |-> propertyName, numericProperty |-> numericProperty]

defineProperty(scopeSegments, propertyName, mutableProperties) ==
    [kind |-> "defineProperty", scopeSegments |-> scopeSegments,
     propertyName |-> propertyName, mutableProperties |-> mutableProperties]

filter(scopeSegments, mutableProperties) ==
    [kind |-> "filter", scopeSegments |-> scopeSegments,
     mutableProperties |-> mutableProperties]

\* an upstream step that passes its rows on and lists some of their
\* properties as mutable in its descriptor
source(mutableProperties) ==
    [kind |-> "source", mutableProperties |-> mutableProperties]

\* The pipelines studied, over input rows {c, p, v}:
\*   rootFilter    groupBy(['c'], 'orders').max('orders', 'v', 'top')
\*                 .filter(g => g.top > Threshold, ['top'])
\*   nestedFilter  groupBy(['c'], 'products').in('products').groupBy(['p'], 'orders')
\*                 .in('products').max('orders', 'v', 'top')
\*                 .in('products').filter(p => p.top > Threshold, ['top'])
\*   cascade       groupBy(['c'], 'products').in('products').groupBy(['p'], 'orders')
\*                 .in('products').max('orders', 'v', 'top')
\*                 .in('products').defineProperty('adj', compute, ['top'])
\*                 .min('products', 'adj', 'minAdj')
\*   sameName      groupBy(['c'], 'orders').max('orders', 'v', 'v')
\*                 .min('orders', 'v', 'low')
\* and, for the replay of the filter:
\*   twoLevels     groupBy(['c'], 'products').in('products').groupBy(['p'], 'orders')
\*                 .in('products').max('orders', 'v', 'peak')
\*                 .max('products', 'peak', 'top')
\*                 .filter(g => g.top > Threshold, ['top'])
\* and, for the group-by step by itself, over rows {c, p, v} and {bucket, v}:
\*   nestedGroups  groupBy(['c'], 'products').in('products').groupBy(['p'], 'orders')
\*   regroup       groupBy(['bucket'], 'entities') below a step whose
\*                 descriptor lists bucket as mutable
PipelineNames == {"rootFilter", "nestedFilter", "cascade", "sameName"}

Built(name) ==
    CASE name = "rootFilter" ->
           <<groupBy(<<>>, "c", "orders"),
             max(<<>>, "orders", "v", "top"),
             filter(<<>>, {"top"})>>
      [] name = "nestedFilter" ->
           <<groupBy(<<>>, "c", "products"),
             groupBy(<<"products">>, "p", "orders"),
             max(<<"products">>, "orders", "v", "top"),
             filter(<<"products">>, {"top"})>>
      [] name = "cascade" ->
           <<groupBy(<<>>, "c", "products"),
             groupBy(<<"products">>, "p", "orders"),
             max(<<"products">>, "orders", "v", "top"),
             defineProperty(<<"products">>, "adj", {"top"}),
             min(<<>>, "products", "adj", "minAdj")>>
      [] name = "sameName" ->
           <<groupBy(<<>>, "c", "orders"),
             max(<<>>, "orders", "v", "v"),
             min(<<>>, "orders", "v", "low")>>
      [] name = "twoLevels" ->
           <<groupBy(<<>>, "c", "products"),
             groupBy(<<"products">>, "p", "orders"),
             max(<<"products">>, "orders", "v", "peak"),
             max(<<>>, "products", "peak", "top"),
             filter(<<>>, {"top"})>>
      [] name = "nestedGroups" ->
           <<groupBy(<<>>, "c", "products"),
             groupBy(<<"products">>, "p", "orders")>>
      [] name = "regroup" ->
           <<source({"bucket"}),
             groupBy(<<>>, "bucket", "entities")>>

\* every groupBy adds an array below its scope
getPathSegmentsFromDescriptor(steps) ==
    {<<>>} \cup {steps[i].scopeSegments \o <<steps[i].arrayName>> :
                    i \in {j \in 1..Len(steps) : steps[j].kind = "groupBy"}}

\* getTypeDescriptor().mutableProperties of the n-th step: aggregates and
\* define-property (with dependencies) add their property at the root level
RECURSIVE rootMutableProperties(_, _)
rootMutableProperties(steps, n) ==
    IF n = 0 THEN {}
    ELSE LET below == rootMutableProperties(steps, n - 1)
             step == steps[n]
         IN  IF step.kind = "minmax" THEN below \cup {step.propertyName}
             ELSE IF step.kind = "source" THEN below \cup step.mutableProperties
             ELSE IF step.kind = "defineProperty" /\ step.mutableProperties # {}
                  THEN below \cup {step.propertyName}
                  ELSE below

\* getTypeDescriptor() of the n-th step, as the mutableProperties of each
\* node: a step returns its input's descriptor with the root list replaced
\* ({...inputDescriptor, mutableProperties: [...]}), the nodes below it as
\* they were
getTypeDescriptor(steps, n) ==
    [path \in getPathSegmentsFromDescriptor(SubSeq(steps, 1, n)) |->
        IF path = <<>> THEN rootMutableProperties(steps, n) ELSE {}]

\* the constructor of an aggregate detects whether the property it reads is
\* mutable from the root-level mutableProperties of its input
Constructed(steps) ==
    [i \in 1..Len(steps) |->
        IF steps[i].kind = "minmax"
        THEN With(steps[i], "isPropertyMutable",
                  steps[i].numericProperty \in rootMutableProperties(steps, i - 1))
        ELSE IF steps[i].kind = "groupBy"
             THEN With(steps[i], "mutableGrouping",
                       steps[i].groupingProperty \in rootMutableProperties(steps, i - 1))
             ELSE steps[i]]

StepInit(cfg) ==
    CASE cfg.kind = "groupBy" ->
           IF cfg.mutableGrouping THEN GroupByMutableInit ELSE GroupByInit
      [] cfg.kind = "source" -> EmptyMap
      [] cfg.kind = "minmax" -> MinMaxInit
      [] cfg.kind = "defineProperty" -> DefinePropertyInit
      [] cfg.kind = "filter" -> FilterInit

StepEvent(cfg, st, e) ==
    CASE cfg.kind = "groupBy" -> GroupByStep(cfg, st, e)
      [] cfg.kind = "minmax" -> MinMaxStep(cfg, st, e)
      [] cfg.kind = "defineProperty" -> DefinePropertyStep(cfg, st, e)
      [] cfg.kind = "filter" -> FilterStep(cfg, st, e)
      [] cfg.kind = "source" -> Forward(st, e)

\* a step handles the events of its input one after the other
RECURSIVE StepEvents(_, _, _)
StepEvents(cfg, st, events) ==
    IF events = <<>> THEN [st |-> st, out |-> <<>>]
    ELSE LET Then(first) ==
                 LET rest == StepEvents(cfg, first.st, Tail(events))
                 IN  [st |-> rest.st, out |-> first.out \o rest.out]
         IN  Then(StepEvent(cfg, st, Head(events)))

\* streams[1] is what the input step emits, streams[i + 1] what step i emits
RECURSIVE RunPipeline(_, _, _, _)
RunPipeline(cfgs, states, streams, i) ==
    IF i > Len(cfgs) THEN [states |-> states, streams |-> streams]
    ELSE LET Then(r) ==
                 RunPipeline(cfgs, [states EXCEPT ![i] = r.st], Append(streams, r.out), i + 1)
         IN  Then(StepEvents(cfgs[i], states[i], streams[i]))

\* ------------------------------------------------------------ output binder
collectAllMutableProperties(steps) == rootMutableProperties(steps, Len(steps))

\* build() registers a modify handler for (path, property) once for the path
\* itself and once more for every descriptor path whose parent it is
modifyHandlers(steps, pathSegments) ==
    LET paths == getPathSegmentsFromDescriptor(steps)
    IN  (IF pathSegments \in paths THEN 1 ELSE 0)
        + Cardinality({sp \in paths : sp # <<>> /\ Front(sp) = pathSegments})

\* the operations the handlers registered by build() enqueue for one event
build(steps, e) ==
    CASE e.type = "added" ->
           IF e.pathSegments \in getPathSegmentsFromDescriptor(steps)
           THEN <<[type |-> "add", segmentPath |-> e.pathSegments, keyPath |-> e.keyPath,
                   key |-> e.key, immutableProps |-> e.immutableProps]>>
           ELSE <<>>
      [] e.type = "removed" ->
           IF e.pathSegments \in getPathSegmentsFromDescriptor(steps)
           THEN <<[type |-> "remove", segmentPath |-> e.pathSegments, keyPath |-> e.keyPath,
                   key |-> e.key]>>
           ELSE <<>>
      [] OTHER ->
           IF e.propertyName \in collectAllMutableProperties(steps)
           THEN [i \in 1..(IF e.single THEN 1 ELSE modifyHandlers(steps, e.pathSegments)) |->
                    [type |-> "modify", segmentPath |-> e.pathSegments, keyPath |-> e.keyPath,
                     key |-> e.key, name |-> e.propertyName, value |-> e.newValue]]
           ELSE <<>>

RECURSIVE buildAll(_, _)
buildAll(steps, events) ==
    IF events = <<>> THEN <<>>
    ELSE build(steps, Head(events)) \o buildAll(steps, Tail(events))

\* ------------------------------------------------------ BatchedStateUpdater
RECURSIVE ApplyAll(_, _)
ApplyAll(operations, state) ==
    IF operations = <<>> THEN Ok(state)
    ELSE LET Then(result) ==
                 IF result.ok THEN ApplyAll(Tail(operations), result.tree) ELSE result
         IN  Then(ApplyOperation(state, Head(operations)))

\* the operations grouped by type: adds, then removes, then modifies
transform_groupedByType(pendingOperations, state) ==
    ApplyAll(SelectSeq(pendingOperations, LAMBDA op : op.type = "add")
             \o SelectSeq(pendingOperations, LAMBDA op : op.type = "remove")
             \o SelectSeq(pendingOperations, LAMBDA op : op.type = "modify"), state)

\* the transform flush() hands to setState, applied to the tree
transform(pendingOperations, state) == ApplyAll(pendingOperations, state)

\* An updater is [pendingOperations, flushTimer, timers, tree] and, for the record,
\* flushes: what each flush of the current call did.  setState applies the
\* transform at once to the tree it holds (state = transform(state)); when
\* the transform throws, the tree stays, the exception leaves flush() before
\* the queue is cleared, and `threw` is set.
NoFlush == [op |-> "none", queued |-> <<>>, calls |-> 0, before |-> <<>>, result |-> Ok(<<>>)]

\* flush() and dispose() clear the timer flushTimer holds, if it holds one
clearTimeout(u) ==
    [u EXCEPT !.flushTimer = FALSE, !.timers = IF u.flushTimer THEN @ - 1 ELSE @]

flush(u, op) ==
    LET u1 == clearTimeout(u)
    IN  IF Len(u.pendingOperations) = 0
        THEN [u1 EXCEPT !.flushes = Append(@, [NoFlush EXCEPT !.op = op, !.before = u.tree,
                                                               !.result = Ok(u.tree)])]
        ELSE LET setState(result) ==
                     LET record == [op |-> op, queued |-> u.pendingOperations, calls |-> 1,
                                    before |-> u.tree, result |-> result]
                     IN  IF result.ok
                         THEN [u1 EXCEPT !.tree = result.tree, !.pendingOperations = <<>>,
                                         !.flushes = Append(@, record)]
                         ELSE [u1 EXCEPT !.threw = TRUE, !.flushes = Append(@, record)]
             IN  setState(transform(u.pendingOperations, u.tree))

\* this.flushTimer = setTimeout(...)
setTimeout(u) == [u EXCEPT !.flushTimer = TRUE, !.timers = @ + 1]

\* a scheduleFlush that flushes once the queue is longer than batchSize
scheduleFlush_late(u) ==
    IF Len(u.pendingOperations) > batchSize
    THEN flush(u, "batch")
    ELSE IF u.flushTimer THEN u ELSE setTimeout(u)

\* a scheduleFlush that calls setTimeout at every enqueue below batchSize
scheduleFlush_perEnqueue(u) ==
    IF Len(u.pendingOperations) >= batchSize
    THEN flush(u, "batch")
    ELSE setTimeout(u)

scheduleFlush(u) ==
    IF Len(u.pendingOperations) >= batchSize
    THEN flush(u, "batch")
    ELSE IF u.flushTimer THEN u ELSE setTimeout(u)

\* add / remove / modify: push the operation, then scheduleFlush
enqueue(u, operation) ==
    scheduleFlush([u EXCEPT !.pendingOperations = Append(@, operation)])

\* the operations of one call; an exception thrown by a flush inside the
\* call ends the call
RECURSIVE enqueueAll(_, _)
enqueueAll(u, operations) ==
    IF operations = <<>> \/ u.threw THEN u
    ELSE enqueueAll(enqueue(u, Head(operations)), Tail(operations))

\* a forceFlush that leaves the queue to the timer
forceFlush_deferred(u) == scheduleFlush(u)

forceFlush(u) == flush(u, "forceFlush")

\* a dispose that clears the timer and keeps the queue
dispose_keepsQueue(u) == clearTimeout(u)

dispose(u) == [clearTimeout(u) EXCEPT !.pendingOperations = <<>>]

\* ================================================================ variables
\* The aggregate steps driven directly (aggregates in isolation).
VARIABLES aggMutable,    \* isPropertyMutable, as the constructors detected it
          aggSteps,      \* step name -> the step's private maps
          aggChildren,   \* <<parent key, child key>> of a live child -> its row
          aggEmitted,    \* step name -> parent key -> value last emitted
          aggLast,       \* the child event handled last
          aggOrder       \* history: the live children of the pick steps, in
                         \* the order of their added events

aggVars == <<aggMutable, aggSteps, aggChildren, aggEmitted, aggLast, aggOrder>>

\* A built pipeline with its binder, updater and state container.
VARIABLES pipe,               \* which pipeline was built
          stepStates,         \* the private state of each step, in build order
          pendingOperations,  \* BatchedStateUpdater.pendingOperations
          flushTimer,         \* BatchedStateUpdater.flushTimer # null
          timers,             \* setTimeout handles neither fired nor cleared
          tree,               \* the state container's materialized tree
          live,               \* the caller's adds not removed yet, in call order
          lastFlush,          \* what the last flush did, if the last step was one
          lastCall,           \* the event streams of the last add / remove call
          binderRows,         \* row -> the last of added / removed the binder got
          roundTrip           \* history: an add, its remove, a full flush in a row

pipeVars == <<pipe, stepStates, pendingOperations, flushTimer, timers, tree, live,
              lastFlush, lastCall, binderRows, roundTrip>>

\* What surrounds the updater: the registry of updaters, the clock of its
\* timer and the state container's transforms.
VARIABLES pipelineUpdaters,   \* the registry maps the pipeline handle to its updater
          timerAge,           \* ms since the flush timer was armed, 0 while it is not
          sinceEnqueue,       \* ms since the most recent enqueue, up to flushDelayMs
          transforms          \* the transforms handed to a state container that
                              \* invokes them when it chooses to

hostVars == <<pipelineUpdaters, timerAge, sinceEnqueue, transforms>>

vars == <<aggVars, pipeVars, hostVars>>

\* ===================================================== aggregates in isolation
\* The aggregate steps driven directly by the child events an upstream step
\* delivers at their segment path.  A run holds the steps of one kind (min
\* and max; average; pick-by-min and pick-by-max) over the same array, each
\* with one subscriber that keeps the value it was last handed per parent.
AggParents == {"g1", "g2"}

RowNames == <<"r1", "r2", "r3", "r4", "r5">>

AggKeys == {RowNames[i] : i \in 1..MaxAggKeys}

AggValues == {Undef} \cup {Num(n) : n \in 1..MaxValAgg}

\* the slots a child can take: every key under the first parent, one key under
\* the second
AggSlots == {slot \in AggParents \X AggKeys : slot[1] = "g1" \/ slot[2] = RowNames[1]}

AggKinds == {{"min", "max"}, {"average"}, {"pickByMin", "pickByMax"}}

AggCfg(name) ==
    [numericProperty |-> "v", comparisonProperty |-> "v",
     aggregateFn |-> IF name = "min" THEN "min" ELSE "max",
     compareFn |-> IF name = "pickByMin" THEN "min" ELSE "max",
     isPropertyMutable |-> aggMutable]

\* the row an upstream step hands over for a child
ChildRow(key, value) ==
    IF value = Undef THEN [id |-> key] ELSE [id |-> key, v |-> value]

IsLiveChild(parent, key) == <<parent, key>> \in DOMAIN aggChildren

Agg_added(name, st, keyPath, key, item) ==
    CASE name \in {"min", "max"} -> MinMax_handleItemAdded(AggCfg(name), st, keyPath, key, item)
      [] name = "average" -> Average_handleItemAdded(AggCfg(name), st, keyPath, key, item)
      [] OTHER -> Pick_handleItemAdded(AggCfg(name), st, keyPath, key, item)

Agg_removed(name, st, keyPath, key, item) ==
    CASE name \in {"min", "max"} -> MinMax_handleItemRemoved(AggCfg(name), st, keyPath, key, item)
      [] name = "average" -> Average_handleItemRemoved(AggCfg(name), st, keyPath, key, item)
      [] OTHER -> Pick_handleItemRemoved(AggCfg(name), st, keyPath, key, item)

Agg_modified(name, st, keyPath, key, oldValue, newValue) ==
    CASE name \in {"min", "max"} ->
             MinMax_handleItemPropertyChanged(AggCfg(name), st, keyPath, key, oldValue, newValue)
      [] name = "average" ->
             Average_handleItemPropertyChanged(AggCfg(name), st, keyPath, key, oldValue, newValue)
      [] OTHER ->
             Pick_handleMutablePropertyChanged(AggCfg(name), st, keyPath, key, "v", newValue)

\* the subscriber: keeps newValue of the last modified event per parent key
Subscribe(emitted, emits) ==
    IF emits = <<>> THEN emitted
    ELSE With(emitted, Last(emits).key, Last(emits).new)

\* no add / remove call on a pipeline yet
NoCall == <<>>

\* History of the calls: stage "added" after add(key, ...), "removed" when
\* remove(key, ...) was the very next call, "flushed" when flushBatchedUpdates
\* was the call after that; queued is the length of the queue the add found.
NoRoundTrip == [stage |-> "none", key |-> "", queued |-> 0]

NoAggEvent == [op |-> "none", parent |-> "", old |-> Undef, new |-> Undef]

AggInit ==
    /\ aggMutable \in BOOLEAN
    /\ \E kind \in AggKinds :
           aggSteps = [name \in kind |->
                          CASE name \in {"min", "max"} -> MinMaxInit
                            [] name = "average" -> AverageInit
                            [] OTHER -> PickInit]
    /\ aggChildren = EmptyMap
    /\ aggEmitted = [name \in DOMAIN aggSteps |-> [parent \in AggParents |-> Undef]]
    /\ aggLast = NoAggEvent
    /\ aggOrder = <<>>
    \* no pipeline is built
    /\ pipe = "none"
    /\ stepStates = <<>>
    /\ pendingOperations = <<>>
    /\ flushTimer = FALSE
    /\ timers = 0
    /\ tree = <<>>
    /\ live = <<>>
    /\ lastFlush = NoFlush
    /\ lastCall = NoCall
    /\ binderRows = EmptyMap
    /\ roundTrip = NoRoundTrip
    /\ pipelineUpdaters = TRUE
    /\ timerAge = 0
    /\ sinceEnqueue = 0
    /\ transforms = <<>>

ChildAdded(parent, key, value) ==
    /\ ~IsLiveChild(parent, key)
    /\ Cardinality(DOMAIN aggChildren) < (IF aggMutable THEN MaxLiveMutable ELSE MaxLive)
    /\ LET item == ChildRow(key, value)
           out == [name \in DOMAIN aggSteps |->
                      Agg_added(name, aggSteps[name], <<parent>>, key, item)]
       IN  /\ aggSteps' = [name \in DOMAIN aggSteps |-> out[name].st]
           /\ aggEmitted' = [name \in DOMAIN aggSteps |->
                                Subscribe(aggEmitted[name], out[name].emits)]
           /\ aggChildren' = With(aggChildren, <<parent, key>>, [props |-> item, cur |-> value])
    /\ aggLast' = [op |-> "added", parent |-> parent, old |-> Undef, new |-> value]
    /\ aggOrder' = IF "pickByMin" \in DOMAIN aggSteps
                   THEN Append(aggOrder, <<parent, key>>) ELSE aggOrder
    /\ UNCHANGED <<aggMutable, pipeVars, hostVars>>

ChildRemoved(parent, key) ==
    /\ IsLiveChild(parent, key)
    /\ LET item == aggChildren[<<parent, key>>].props
           out == [name \in DOMAIN aggSteps |->
                      Agg_removed(name, aggSteps[name], <<parent>>, key, item)]
       IN  /\ aggSteps' = [name \in DOMAIN aggSteps |-> out[name].st]
           /\ aggEmitted' = [name \in DOMAIN aggSteps |->
                                Subscribe(aggEmitted[name], out[name].emits)]
           /\ aggChildren' = Del(aggChildren, <<parent, key>>)
    /\ aggLast' = [op |-> "removed", parent |-> parent,
                   old |-> aggChildren[<<parent, key>>].cur, new |-> Undef]
    /\ aggOrder' = SelectSeq(aggOrder, LAMBDA slot : slot # <<parent, key>>)
    /\ UNCHANGED <<aggMutable, pipeVars, hostVars>>

\* a modified event for the aggregated property, delivered only to steps
\* that registered for it, which they do when the property is mutable
ChildModified(parent, key, newValue) ==
    /\ aggMutable
    /\ IsLiveChild(parent, key)
    /\ LET oldValue == aggChildren[<<parent, key>>].cur
           out == [name \in DOMAIN aggSteps |->
                      Agg_modified(name, aggSteps[name], <<parent>>, key, oldValue, newValue)]
       IN  /\ aggSteps' = [name \in DOMAIN aggSteps |-> out[name].st]
           /\ aggEmitted' = [name \in DOMAIN aggSteps |->
                                Subscribe(aggEmitted[name], out[name].emits)]
           /\ aggChildren' = [aggChildren EXCEPT ![<<parent, key>>].cur = newValue]
    /\ aggLast' = [op |-> "modified", parent |-> parent,
                   old |-> aggChildren[<<parent, key>>].cur, new |-> newValue]
    /\ UNCHANGED <<aggMutable, aggOrder, pipeVars, hostVars>>

NextAgg ==
    \/ \E slot \in AggSlots, value \in AggValues : ChildAdded(slot[1], slot[2], value)
    \/ \E slot \in AggSlots : ChildRemoved(slot[1], slot[2])
    \/ \E slot \in AggSlots, value \in AggValues : ChildModified(slot[1], slot[2], value)

\* ------------------------------------------------ what the aggregates owe
\* the live children of a parent that have a numeric value
NumericChildren(parent) ==
    {key \in AggKeys : IsLiveChild(parent, key) /\ aggChildren[<<parent, key>>].cur # Undef}

CurrentValue(parent, key) == Val(aggChildren[<<parent, key>>].cur)

NumericValues(parent) == {CurrentValue(parent, key) : key \in NumericChildren(parent)}

Occurrences(seq, x) == Cardinality({i \in 1..Len(seq) : seq[i] = x})

\* the stored values are the children's values, one occurrence per child
HoldsEachOnce(values, parent) ==
    /\ Len(values) = Cardinality(NumericChildren(parent))
    /\ \A x \in NumericValues(parent) :
           Occurrences(values, x) =
               Cardinality({key \in NumericChildren(parent) : CurrentValue(parent, key) = x})

RECURSIVE SumOver(_, _)
SumOver(parent, keys) ==
    IF keys = {} THEN 0
    ELSE LET key == CHOOSE k \in keys : TRUE
         IN  CurrentValue(parent, key) + SumOver(parent, keys \ {key})

LeastOf(S) == CHOOSE m \in S : \A x \in S : m <= x

GreatestOf(S) == CHOOSE m \in S : \A x \in S : m >= x

\* C2: for every parent, the value last emitted by the min (max) aggregate is
\* the minimum (maximum) of the numeric values of the parent's live children,
\* with duplicates counted (the stored values are exactly those values, one
\* occurrence per child), and is absent when no live child has a numeric value.
C2_MinMaxFresh ==
    \A name \in DOMAIN aggSteps \cap {"min", "max"}, parent \in AggParents :
        LET values == NumericValues(parent)
        IN  /\ aggEmitted[name][parent] =
                   IF values = {} THEN Undef
                   ELSE IF name = "min" THEN Num(LeastOf(values)) ELSE Num(GreatestOf(values))
            /\ HoldsEachOnce(Get(aggSteps[name].valueStore, <<parent>>), parent)

\* one of several children holding the minimum left (was removed, or changed
\* to another value) and the minimum is still emitted for the others
C2_Witness ==
    /\ "min" \in DOMAIN aggSteps
    /\ aggLast.op \in {"removed", "modified"}
    /\ aggLast.old # Undef
    /\ aggLast.new # aggLast.old
    /\ Val(aggLast.old) \in NumericValues(aggLast.parent)
    /\ aggEmitted["min"][aggLast.parent] = aggLast.old

\* C3: for every parent, the average last emitted is (sum of the numeric
\* values of live children) / (number of live children with a numeric value),
\* absent when that number is zero; the step's sum and count are that sum and
\* that number after every event, so a modified event between two numeric
\* values moves the sum by the difference and leaves the count alone.
C3_AverageFresh ==
    \A name \in DOMAIN aggSteps \cap {"average"}, parent \in AggParents :
        LET keys == NumericChildren(parent)
            emitted == aggEmitted[name][parent]
            states == aggSteps[name].averageStates
        IN  IF keys = {}
            THEN emitted = Undef /\ ~Has(states, <<parent>>)
            ELSE /\ emitted # Undef
                 /\ Val(emitted)[2] > 0
                 /\ Val(emitted)[1] * Cardinality(keys) = SumOver(parent, keys) * Val(emitted)[2]
                 /\ Has(states, <<parent>>)
                 /\ states[<<parent>>].sum = SumOver(parent, keys)
                 /\ states[<<parent>>].count = Cardinality(keys)

\* a modified event took a child from one numeric value to a different one
\* while a sibling also counted
C3_Witness ==
    /\ "average" \in DOMAIN aggSteps
    /\ aggLast.op = "modified"
    /\ aggLast.old # Undef /\ aggLast.new # Undef /\ aggLast.old # aggLast.new
    /\ Cardinality(NumericChildren(aggLast.parent)) >= 2
    /\ aggEmitted["average"][aggLast.parent] # Undef

IsBetter(name, value1, value2) ==
    IF name = "pickByMin" THEN value1 < value2 ELSE value1 > value2

\* C4: for every parent, the object last emitted by pick-by-min (pick-by-max)
\* is the row of a live child whose comparison value no live child of the
\* parent beats, and is absent when no live child has a comparison value.
C4_PickFresh ==
    \A name \in DOMAIN aggSteps \cap {"pickByMin", "pickByMax"}, parent \in AggParents :
        LET candidates == NumericChildren(parent)
            emitted == aggEmitted[name][parent]
        IN  IF candidates = {}
            THEN emitted = Undef
            ELSE /\ emitted # Undef
                 /\ \E key \in candidates :
                        /\ Val(emitted) = With(aggChildren[<<parent, key>>].props, "v",
                                               aggChildren[<<parent, key>>].cur)
                        /\ \A other \in candidates :
                               ~IsBetter(name, CurrentValue(parent, other),
                                         CurrentValue(parent, key))

\* the picked child (the only one with the least value) was removed while
\* two siblings remained, and the row of one of them is emitted in its place
C4_Witness ==
    /\ "pickByMin" \in DOMAIN aggSteps
    /\ aggLast.op = "removed"
    /\ aggLast.old # Undef
    /\ Cardinality(NumericChildren(aggLast.parent)) >= 2
    /\ aggEmitted["pickByMin"][aggLast.parent] # Undef
    /\ Val(aggLast.old) < Val(Get(Val(aggEmitted["pickByMin"][aggLast.parent]), "v"))

\* the live children of a parent that no live child of the parent beats
Extremal(name, parent) ==
    {key \in NumericChildren(parent) :
        \A other \in NumericChildren(parent) :
            ~IsBetter(name, CurrentValue(parent, other), CurrentValue(parent, key))}

\* the one of the keys whose added event came first
FirstAdded(parent, keys) ==
    LET first == CHOOSE i \in 1..Len(aggOrder) :
                     /\ aggOrder[i][1] = parent /\ aggOrder[i][2] \in keys
                     /\ \A j \in 1..(i - 1) : ~(aggOrder[j][1] = parent /\ aggOrder[j][2] \in keys)
    IN  aggOrder[first][2]

\* C16: when several live children of a parent share the extremal
\* comparison value, the pick is the one of them that was added first, after
\* an add, after the removal of the previous pick and after a modified event
\* that made the values equal.
C16_FirstAddedWins ==
    \A name \in DOMAIN aggSteps \cap {"pickByMin", "pickByMax"}, parent \in AggParents :
        Cardinality(Extremal(name, parent)) >= 2 =>
            /\ aggEmitted[name][parent] # Undef
            /\ Val(aggEmitted[name][parent]).id = FirstAdded(parent, Extremal(name, parent))

\* a modified event made the value of the child added last equal to the
\* least value, which the child added first has
C16_Witness ==
    /\ "pickByMin" \in DOMAIN aggSteps
    /\ aggLast.op = "modified"
    /\ aggLast.old # aggLast.new
    /\ Cardinality(Extremal("pickByMin", aggLast.parent)) >= 2
    /\ Val(aggEmitted["pickByMin"][aggLast.parent]).v = aggLast.new

\* ======================================================= a pipeline at work
Categories == {"c1", "c2"}

ProductNames == {"p1"}

RowKeys == {RowNames[i] : i \in 1..MaxRows}

RowProps == [c : Categories, p : ProductNames, v : {Num(n) : n \in 1..MaxVal}]

\* the rows a caller adds: the first key in any category, the others in the
\* first category
RowInputs ==
    {input \in RowKeys \X RowProps : input[1] = RowNames[1] \/ input[2].c = "c1"}

Steps == Constructed(Built(pipe))

LiveKeys == {live[i].key : i \in 1..Len(live)}

LiveRow(key) == live[CHOOSE i \in 1..Len(live) : live[i].key = key]

\* the events the last step handed to the binder during the last call
Delivered == IF lastCall = NoCall THEN <<>> ELSE Last(lastCall)

RowOf(e) == <<e.pathSegments, e.keyPath, e.key>>

RECURSIVE Deliver(_, _)
Deliver(rows, events) ==
    IF events = <<>> THEN rows
    ELSE LET e == Head(events)
         IN  Deliver(IF e.type = "modified" THEN rows ELSE With(rows, RowOf(e), e.type),
                     Tail(events))

PipeInit ==
    /\ pipe \in PipelineNames
    /\ stepStates = [i \in 1..Len(Steps) |-> StepInit(Steps[i])]
    /\ pendingOperations = <<>>
    /\ flushTimer = FALSE
    /\ timers = 0
    /\ tree = <<>>
    /\ live = <<>>
    /\ lastFlush = NoFlush
    /\ lastCall = NoCall
    /\ binderRows = EmptyMap
    /\ roundTrip = NoRoundTrip
    /\ pipelineUpdaters = TRUE
    /\ timerAge = 0
    /\ sinceEnqueue = 0
    /\ transforms = <<>>
    \* no aggregate step stands alone
    /\ aggMutable = FALSE
    /\ aggSteps = EmptyMap
    /\ aggChildren = EmptyMap
    /\ aggEmitted = EmptyMap
    /\ aggLast = NoAggEvent
    /\ aggOrder = <<>>

\* the nested adds a filter step is holding back
RECURSIVE HeldBack(_, _)
HeldBack(states, i) ==
    IF i = 0 THEN 0
    ELSE HeldBack(states, i - 1)
         + (IF Steps[i].kind = "filter"
            THEN LET held == states[i].pendingNestedAdds
                     RECURSIVE Total(_)
                     Total(keys) == IF keys = {} THEN 0
                                    ELSE LET k == CHOOSE x \in keys : TRUE
                                         IN  Len(held[k]) + Total(keys \ {k})
                 IN  Total(DOMAIN held)
            ELSE 0)

\* the bounds on what a call may start from
CallAllowed ==
    /\ Len(pendingOperations) <= MaxPending
    /\ HeldBack(stepStates, Len(stepStates)) <= MaxHeld

Updater ==
    [pendingOperations |-> pendingOperations, flushTimer |-> flushTimer,
     timers |-> timers, tree |-> tree,
     flushes |-> <<>>, threw |-> FALSE]

AfterUpdater(u) ==
    /\ pendingOperations' = u.pendingOperations
    /\ flushTimer' = u.flushTimer
    /\ timers' = u.timers
    /\ tree' = u.tree
    /\ lastFlush' = IF u.flushes = <<>> THEN NoFlush ELSE Last(u.flushes)

\* one call on the pipeline: the event runs through the steps to the binder,
\* whose handlers enqueue the operations
Call(events) ==
    LET Propagated(run) ==
            /\ stepStates' = run.states
            /\ AfterUpdater(enqueueAll(Updater, buildAll(Steps, Last(run.streams))))
            /\ lastCall' = run.streams
            /\ binderRows' = Deliver(binderRows, Last(run.streams))
    IN  Propagated(RunPipeline(Steps, stepStates, <<events>>, 1))

\* pipeline.add(key, immutableProps)
PipelineAdd(key, immutableProps) ==
    /\ key \notin LiveKeys
    /\ CallAllowed
    /\ Call(Input_add(key, immutableProps))
    /\ live' = Append(live, [key |-> key, immutableProps |-> immutableProps])
    /\ roundTrip' = [stage |-> "added", key |-> key, queued |-> Len(pendingOperations)]
    /\ UNCHANGED <<pipe, aggVars, hostVars>>

\* pipeline.remove(key, immutableProps), matching an earlier add
PipelineRemove(key) ==
    /\ key \in LiveKeys
    /\ CallAllowed
    /\ Call(Input_remove(key, LiveRow(key).immutableProps))
    /\ live' = SelectSeq(live, LAMBDA row : row.key # key)
    /\ roundTrip' = IF roundTrip.stage = "added" /\ roundTrip.key = key
                    THEN [roundTrip EXCEPT !.stage = "removed"]
                    ELSE NoRoundTrip
    /\ UNCHANGED <<pipe, aggVars, hostVars>>

\* the timer armed by scheduleFlush fires
TimerFires ==
    /\ flushTimer
    /\ AfterUpdater(flush([Updater EXCEPT !.flushTimer = FALSE, !.timers = @ - 1], "timer"))
    /\ lastCall' = NoCall
    /\ roundTrip' = NoRoundTrip
    /\ UNCHANGED <<pipe, stepStates, live, binderRows, aggVars, hostVars>>

\* flushBatchedUpdates(pipeline)
ForceFlush ==
    /\ AfterUpdater(forceFlush(Updater))
    /\ lastCall' = NoCall
    /\ roundTrip' = IF roundTrip.stage = "removed"
                    THEN [roundTrip EXCEPT !.stage = "flushed"]
                    ELSE NoRoundTrip
    /\ UNCHANGED <<pipe, stepStates, live, binderRows, aggVars, hostVars>>

Next ==
    \/ \E input \in RowInputs : PipelineAdd(input[1], input[2])
    \/ \E key \in RowKeys : PipelineRemove(key)
    \/ TimerFires
    \/ ForceFlush

\* ================================================ the root filter, more rows
\* The pipeline with the filter at the root scope over one category, with
\* one row more than the pipelines above are given.
FilterRowKeys == {RowNames[i] : i \in 1..MaxFilterRows}

FilterInputs ==
    FilterRowKeys \X [c : {"c1"}, p : ProductNames, v : {Num(n) : n \in 1..MaxVal}]

FilterInitial ==
    /\ pipe = "rootFilter"
    /\ stepStates = [i \in 1..Len(Steps) |-> StepInit(Steps[i])]
    /\ pendingOperations = <<>>
    /\ flushTimer = FALSE
    /\ timers = 0
    /\ tree = <<>>
    /\ live = <<>>
    /\ lastFlush = NoFlush
    /\ lastCall = NoCall
    /\ binderRows = EmptyMap
    /\ roundTrip = NoRoundTrip
    /\ pipelineUpdaters = TRUE
    /\ timerAge = 0
    /\ sinceEnqueue = 0
    /\ transforms = <<>>
    /\ aggMutable = FALSE
    /\ aggSteps = EmptyMap
    /\ aggChildren = EmptyMap
    /\ aggEmitted = EmptyMap
    /\ aggLast = NoAggEvent
    /\ aggOrder = <<>>

NextFilter ==
    \/ \E input \in FilterInputs : PipelineAdd(input[1], input[2])
    \/ \E key \in FilterRowKeys : PipelineRemove(key)
    \/ TimerFires
    \/ ForceFlush

\* ============================================ the filter over two levels
\* The pipeline twoLevels over one category: the rows below a group that
\* does not pass are held back as nested adds (the product, the order) and
\* as nested modifications (the product's peak), up to MaxReplayHeld adds.
ReplayInputs ==
    RowKeys \X [c : {"c1"}, p : ProductNames, v : {Num(n) : n \in 1..MaxVal}]

ReplayInit ==
    /\ pipe = "twoLevels"
    /\ stepStates = [i \in 1..Len(Steps) |-> StepInit(Steps[i])]
    /\ pendingOperations = <<>>
    /\ flushTimer = FALSE
    /\ timers = 0
    /\ tree = <<>>
    /\ live = <<>>
    /\ lastFlush = NoFlush
    /\ lastCall = NoCall
    /\ binderRows = EmptyMap
    /\ roundTrip = NoRoundTrip
    /\ pipelineUpdaters = TRUE
    /\ timerAge = 0
    /\ sinceEnqueue = 0
    /\ transforms = <<>>
    /\ aggMutable = FALSE
    /\ aggSteps = EmptyMap
    /\ aggChildren = EmptyMap
    /\ aggEmitted = EmptyMap
    /\ aggLast = NoAggEvent
    /\ aggOrder = <<>>

\* pipeline.add(key, immutableProps)
ReplayAdd(key, immutableProps) ==
    /\ key \notin LiveKeys
    /\ Len(pendingOperations) <= MaxPending
    /\ HeldBack(stepStates, Len(stepStates)) <= MaxReplayHeld
    /\ Call(Input_add(key, immutableProps))
    /\ live' = Append(live, [key |-> key, immutableProps |-> immutableProps])
    /\ roundTrip' = NoRoundTrip
    /\ UNCHANGED <<pipe, aggVars, hostVars>>

\* pipeline.remove(key, immutableProps), matching an earlier add
ReplayRemove(key) ==
    /\ key \in LiveKeys
    /\ Len(pendingOperations) <= MaxPending
    /\ HeldBack(stepStates, Len(stepStates)) <= MaxReplayHeld
    /\ Call(Input_remove(key, LiveRow(key).immutableProps))
    /\ live' = SelectSeq(live, LAMBDA row : row.key # key)
    /\ roundTrip' = NoRoundTrip
    /\ UNCHANGED <<pipe, aggVars, hostVars>>

NextReplay ==
    \/ \E input \in ReplayInputs : ReplayAdd(input[1], input[2])
    \/ \E key \in RowKeys : ReplayRemove(key)
    \/ TimerFires
    \/ ForceFlush

\* ================================================== group-by driven directly
\* The group-by steps by themselves: two nested group-bys over immutable
\* rows, and one group-by whose grouping property the step above it modifies.
GroupPipelines == {"nestedGroups", "regroup"}

GroupProductNames == {"p1", "p2"}

Buckets == {"low", "high"}

GroupInputs ==
    IF pipe = "regroup"
    THEN RowKeys \X [bucket : Buckets, v : {Num(1)}]
    ELSE RowKeys \X [c : Categories, p : GroupProductNames, v : {Num(1)}]

GroupByInitial ==
    /\ pipe \in GroupPipelines
    /\ stepStates = [i \in 1..Len(Steps) |-> StepInit(Steps[i])]
    /\ pendingOperations = <<>>
    /\ flushTimer = FALSE
    /\ timers = 0
    /\ tree = <<>>
    /\ live = <<>>
    /\ lastFlush = NoFlush
    /\ lastCall = NoCall
    /\ binderRows = EmptyMap
    /\ roundTrip = NoRoundTrip
    /\ pipelineUpdaters = TRUE
    /\ timerAge = 0
    /\ sinceEnqueue = 0
    /\ transforms = <<>>
    /\ aggMutable = FALSE
    /\ aggSteps = EmptyMap
    /\ aggChildren = EmptyMap
    /\ aggEmitted = EmptyMap
    /\ aggLast = NoAggEvent
    /\ aggOrder = <<>>

\* the step above the group-by hands it a modified event for the grouping
\* property of a row it added
UpstreamModified(key, newValue) ==
    /\ pipe = "regroup"
    /\ key \in LiveKeys
    /\ CallAllowed
    /\ Call(<<ModifiedEvent(<<>>, "bucket", <<>>, key,
                            LiveRow(key).immutableProps.bucket, newValue)>>)
    /\ live' = [i \in DOMAIN live |->
                   IF live[i].key = key
                   THEN [live[i] EXCEPT !.immutableProps.bucket = newValue]
                   ELSE live[i]]
    /\ roundTrip' = NoRoundTrip
    /\ UNCHANGED <<pipe, aggVars, hostVars>>

NextGroupBy ==
    \/ \E input \in GroupInputs : PipelineAdd(input[1], input[2])
    \/ \E key \in RowKeys : PipelineRemove(key)
    \/ \E key \in RowKeys, newValue \in Buckets : UpstreamModified(key, newValue)
    \/ TimerFires
    \/ ForceFlush

\* ================================================ the updater driven directly
\* BatchedStateUpdater and the tree transforms under any operations a binder
\* may hand them: add / remove / modify at the segment paths of a descriptor
\* with nested arrays, for keys that may or may not be in the tree.
OpKeys == {"k1", "k2"}

OpSegments == <<"items", "parts", "pieces">>

OpPaths == {n \in 0..MaxDepth : TRUE}

OpTargets == UNION {{<<SubSeq(OpSegments, 1, n), keyPath, key>> :
                        keyPath \in [1..n -> OpKeys], key \in OpKeys} : n \in OpPaths}

AddOperations ==
    {[type |-> "add", segmentPath |-> t[1], keyPath |-> t[2], key |-> t[3],
      immutableProps |-> [x |-> Num(1)]] : t \in OpTargets}

RemoveOperations ==
    {[type |-> "remove", segmentPath |-> t[1], keyPath |-> t[2], key |-> t[3]] :
        t \in OpTargets}

ModifyOperations ==
    {[type |-> "modify", segmentPath |-> t[1], keyPath |-> t[2], key |-> t[3],
      name |-> "x", value |-> Num(2)] : t \in OpTargets}

\* the rows of a tree, at all levels
RECURSIVE RowCount(_, _)
RowCount(state, depth) ==
    IF state = <<>> THEN 0
    ELSE 1 + RowCount(Tail(state), depth)
           + (IF depth < MaxDepth
              THEN RowCount(Get(Head(state).value, OpSegments[depth + 1]), depth + 1)
              ELSE 0)

UpdaterInit ==
    /\ pipe = "none"
    /\ stepStates = <<>>
    /\ pendingOperations = <<>>
    /\ flushTimer = FALSE
    /\ timers = 0
    /\ tree = <<>>
    /\ live = <<>>
    /\ lastFlush = NoFlush
    /\ lastCall = NoCall
    /\ binderRows = EmptyMap
    /\ roundTrip = NoRoundTrip
    /\ pipelineUpdaters = TRUE
    /\ timerAge = 0
    /\ sinceEnqueue = 0
    /\ transforms = <<>>
    /\ aggMutable = FALSE
    /\ aggSteps = EmptyMap
    /\ aggChildren = EmptyMap
    /\ aggEmitted = EmptyMap
    /\ aggLast = NoAggEvent
    /\ aggOrder = <<>>

\* updater.add(segmentPath, keyPath, key, immutableProps)
UpdaterAdd(operation) ==
    /\ Len(pendingOperations) < MaxQueued
    /\ RowCount(tree, 0)
         + Cardinality({i \in 1..Len(pendingOperations) : pendingOperations[i].type = "add"})
         < MaxTreeRows
    /\ AfterUpdater(enqueue(Updater, operation))
    /\ UNCHANGED <<pipe, stepStates, live, lastCall, binderRows, roundTrip, aggVars, hostVars>>

\* updater.remove(segmentPath, keyPath, key)
UpdaterRemove(operation) ==
    /\ Len(pendingOperations) < MaxQueued
    /\ AfterUpdater(enqueue(Updater, operation))
    /\ UNCHANGED <<pipe, stepStates, live, lastCall, binderRows, roundTrip, aggVars, hostVars>>

\* updater.modify(segmentPath, keyPath, key, propertyName, newValue)
UpdaterModify(operation) ==
    /\ Len(pendingOperations) < MaxQueued
    /\ AfterUpdater(enqueue(Updater, operation))
    /\ UNCHANGED <<pipe, stepStates, live, lastCall, binderRows, roundTrip, aggVars, hostVars>>

NextUpdater ==
    \/ \E operation \in AddOperations : UpdaterAdd(operation)
    \/ \E operation \in RemoveOperations : UpdaterRemove(operation)
    \/ \E operation \in ModifyOperations : UpdaterModify(operation)
    \/ TimerFires
    \/ ForceFlush

\* ========================================= the updater filled to its batch
\* One updater, registered for its pipeline, whose caller adds and removes
\* one root row in turn, for as long as it takes the queue to reach
\* batchSize.  An add under a row that does not exist makes the transform
\* throw, and the queue is then kept; the queue is followed for MaxOverflow
\* operations past batchSize.
BatchAdd == [type |-> "add", segmentPath |-> <<>>, keyPath |-> <<>>, key |-> "k1",
             immutableProps |-> [x |-> Num(1)]]

BatchRemove == [type |-> "remove", segmentPath |-> <<>>, keyPath |-> <<>>, key |-> "k1"]

BatchOrphan == [type |-> "add", segmentPath |-> <<"items">>, keyPath |-> <<"k2">>,
                key |-> "k1", immutableProps |-> [x |-> Num(1)]]

BatchInit ==
    /\ pipe = "none"
    /\ stepStates = <<>>
    /\ pendingOperations = <<>>
    /\ flushTimer = FALSE
    /\ timers = 0
    /\ tree = <<>>
    /\ live = <<>>
    /\ lastFlush = NoFlush
    /\ lastCall = NoCall
    /\ binderRows = EmptyMap
    /\ roundTrip = NoRoundTrip
    /\ pipelineUpdaters = TRUE
    /\ timerAge = 0
    /\ sinceEnqueue = 0
    /\ transforms = <<>>
    /\ aggMutable = FALSE
    /\ aggSteps = EmptyMap
    /\ aggChildren = EmptyMap
    /\ aggEmitted = EmptyMap
    /\ aggLast = NoAggEvent
    /\ aggOrder = <<>>

\* the binder's handlers keep their reference to the updater, disposed or not
BatchedAdd ==
    /\ Len(pendingOperations) < batchSize + MaxOverflow
    /\ live = <<>>
    /\ AfterUpdater(enqueue(Updater, BatchAdd))
    /\ live' = <<[key |-> BatchAdd.key, immutableProps |-> BatchAdd.immutableProps]>>
    /\ UNCHANGED <<pipe, stepStates, lastCall, binderRows, roundTrip, pipelineUpdaters,
                   timerAge, sinceEnqueue, transforms, aggVars>>

BatchedRemove ==
    /\ Len(pendingOperations) < batchSize + MaxOverflow
    /\ live # <<>>
    /\ AfterUpdater(enqueue(Updater, BatchRemove))
    /\ live' = <<>>
    /\ UNCHANGED <<pipe, stepStates, lastCall, binderRows, roundTrip, pipelineUpdaters,
                   timerAge, sinceEnqueue, transforms, aggVars>>

\* one add under an unknown row per queue
BatchedOrphan ==
    /\ Len(pendingOperations) < batchSize + MaxOverflow
    /\ \A i \in 1..Len(pendingOperations) : pendingOperations[i] # BatchOrphan
    /\ AfterUpdater(enqueue(Updater, BatchOrphan))
    /\ UNCHANGED <<pipe, stepStates, live, lastCall, binderRows, roundTrip,
                   pipelineUpdaters, timerAge, sinceEnqueue, transforms, aggVars>>

\* PipelineBuilder.flushBatchedUpdates(pipeline)
FlushBatchedUpdates ==
    /\ IF pipelineUpdaters
       THEN AfterUpdater(forceFlush(Updater))
       ELSE UNCHANGED <<pendingOperations, flushTimer, timers, tree, lastFlush>>
    /\ UNCHANGED <<pipe, stepStates, live, lastCall, binderRows, roundTrip,
                   pipelineUpdaters, timerAge, sinceEnqueue, transforms, aggVars>>

\* PipelineBuilder.disposeBatchedUpdates(pipeline)
DisposeBatchedUpdates ==
    /\ IF pipelineUpdaters
       THEN AfterUpdater(dispose(Updater))
       ELSE UNCHANGED <<pendingOperations, flushTimer, timers, tree, lastFlush>>
    /\ pipelineUpdaters' = FALSE
    /\ UNCHANGED <<pipe, stepStates, live, lastCall, binderRows, roundTrip,
                   timerAge, sinceEnqueue, transforms, aggVars>>

NextBatch ==
    \/ BatchedAdd
    \/ BatchedRemove
    \/ BatchedOrphan
    \/ TimerFires
    \/ FlushBatchedUpdates
    \/ DisposeBatchedUpdates

\* the same updater with a caller that stops while MaxWaiting operations wait
NextBatchFair ==
    \/ Len(pendingOperations) < MaxWaiting /\ BatchedAdd
    \/ Len(pendingOperations) < MaxWaiting /\ BatchedRemove
    \/ Len(pendingOperations) < MaxWaiting /\ BatchedOrphan
    \/ TimerFires
    \/ FlushBatchedUpdates
    \/ DisposeBatchedUpdates

\* ================================================== the updater on a clock
\* The same updater and caller with the time of its timer: timerAge is what
\* setTimeout(..., flushDelayMs) has waited since scheduleFlush armed it,
\* sinceEnqueue the time since the last push.  Time stops at the moment the
\* timer is due, and the timer fires then.
TimerInit ==
    /\ pipe = "none"
    /\ stepStates = <<>>
    /\ pendingOperations = <<>>
    /\ flushTimer = FALSE
    /\ timers = 0
    /\ tree = <<>>
    /\ live = <<>>
    /\ lastFlush = NoFlush
    /\ lastCall = NoCall
    /\ binderRows = EmptyMap
    /\ roundTrip = NoRoundTrip
    /\ pipelineUpdaters = TRUE
    /\ timerAge = 0
    /\ sinceEnqueue = 0
    /\ transforms = <<>>
    /\ aggMutable = FALSE
    /\ aggSteps = EmptyMap
    /\ aggChildren = EmptyMap
    /\ aggEmitted = EmptyMap
    /\ aggLast = NoAggEvent
    /\ aggOrder = <<>>

\* scheduleFlush calls setTimeout only while flushTimer is null
TimedAdd ==
    /\ live = <<>>
    /\ AfterUpdater(enqueue(Updater, BatchAdd))
    /\ timerAge' = IF flushTimer /\ flushTimer' THEN timerAge ELSE 0
    /\ sinceEnqueue' = 0
    /\ live' = <<[key |-> BatchAdd.key, immutableProps |-> BatchAdd.immutableProps]>>
    /\ UNCHANGED <<pipe, stepStates, lastCall, binderRows, roundTrip, pipelineUpdaters,
                   transforms, aggVars>>

TimedRemove ==
    /\ live # <<>>
    /\ AfterUpdater(enqueue(Updater, BatchRemove))
    /\ timerAge' = IF flushTimer /\ flushTimer' THEN timerAge ELSE 0
    /\ sinceEnqueue' = 0
    /\ live' = <<>>
    /\ UNCHANGED <<pipe, stepStates, lastCall, binderRows, roundTrip, pipelineUpdaters,
                   transforms, aggVars>>

\* d ms pass with no call on the updater
TimePasses(d) ==
    /\ flushTimer => timerAge + d <= flushDelayMs
    /\ sinceEnqueue < flushDelayMs
    /\ timerAge' = IF flushTimer THEN timerAge + d ELSE 0
    /\ sinceEnqueue' = IF sinceEnqueue + d < flushDelayMs THEN sinceEnqueue + d
                        ELSE flushDelayMs
    /\ lastFlush' = NoFlush
    /\ UNCHANGED <<pipe, stepStates, pendingOperations, flushTimer, timers, tree, live,
                   lastCall,
                   binderRows, roundTrip, pipelineUpdaters, transforms, aggVars>>

\* the setTimeout callback, flushDelayMs after setTimeout was called
TimerElapses ==
    /\ flushTimer
    /\ timerAge = flushDelayMs
    /\ AfterUpdater(flush([Updater EXCEPT !.flushTimer = FALSE, !.timers = @ - 1], "timer"))
    /\ timerAge' = 0
    /\ UNCHANGED <<pipe, stepStates, live, lastCall, binderRows, roundTrip, pipelineUpdaters,
                   sinceEnqueue, transforms, aggVars>>

\* flushBatchedUpdates(pipeline): flush() clears the timer
TimedForceFlush ==
    /\ AfterUpdater(forceFlush(Updater))
    /\ timerAge' = 0
    /\ UNCHANGED <<pipe, stepStates, live, lastCall, binderRows, roundTrip, pipelineUpdaters,
                   sinceEnqueue, transforms, aggVars>>

NextTimer ==
    \/ TimedAdd
    \/ TimedRemove
    \/ \E d \in 1..flushDelayMs : TimePasses(d)
    \/ TimerElapses
    \/ TimedForceFlush

\* ================================== the updater and a container that waits
\* The same updater and caller with a state container that may keep the
\* transform it is handed and invoke it later, once or twice, as well as
\* invoke it at once.  The transform is the arrow function of flush(): it
\* reads this.pendingOperations when it is invoked.  A kept transform is
\* recorded with the queue flush() found (queued) and how often it has run.
ContainerInit ==
    /\ pipe = "none"
    /\ stepStates = <<>>
    /\ pendingOperations = <<>>
    /\ flushTimer = FALSE
    /\ timers = 0
    /\ tree = <<>>
    /\ live = <<>>
    /\ lastFlush = NoFlush
    /\ lastCall = NoCall
    /\ binderRows = EmptyMap
    /\ roundTrip = NoRoundTrip
    /\ pipelineUpdaters = TRUE
    /\ timerAge = 0
    /\ sinceEnqueue = 0
    /\ transforms = <<>>
    /\ aggMutable = FALSE
    /\ aggSteps = EmptyMap
    /\ aggChildren = EmptyMap
    /\ aggEmitted = EmptyMap
    /\ aggLast = NoAggEvent
    /\ aggOrder = <<>>

ContainerAdd ==
    /\ live = <<>>
    /\ Len(pendingOperations) <= MaxQueued
    /\ AfterUpdater(enqueue(Updater, BatchAdd))
    /\ live' = <<[key |-> BatchAdd.key, immutableProps |-> BatchAdd.immutableProps]>>
    /\ UNCHANGED <<pipe, stepStates, lastCall, binderRows, roundTrip, hostVars, aggVars>>

ContainerRemove ==
    /\ live # <<>>
    /\ Len(pendingOperations) <= MaxQueued
    /\ AfterUpdater(enqueue(Updater, BatchRemove))
    /\ live' = <<>>
    /\ UNCHANGED <<pipe, stepStates, lastCall, binderRows, roundTrip, hostVars, aggVars>>

\* flush() from the timer or from forceFlush, setState keeping the
\* transform: the timer is cleared, the transform handed over, the queue
\* replaced by an empty one
FlushKept ==
    /\ Len(transforms) < MaxKept
    /\ flushTimer' = FALSE
    /\ timers' = IF flushTimer THEN timers - 1 ELSE timers
    /\ transforms' = IF pendingOperations = <<>> THEN transforms
                     ELSE Append(transforms, [queued |-> pendingOperations, runs |-> 0])
    /\ pendingOperations' = <<>>
    /\ lastFlush' = NoFlush
    /\ UNCHANGED <<pipe, stepStates, tree, live, lastCall, binderRows, roundTrip,
                   pipelineUpdaters, timerAge, sinceEnqueue, aggVars>>

\* the container invokes the oldest transform it keeps on its tree, and
\* keeps it for a second run or not; a transform that throws leaves the
\* tree.  Rows added twice stay twice, so the tree is followed up to
\* MaxTreeRows rows.
ContainerInvokes(again) ==
    /\ transforms # <<>>
    /\ Len(tree) < MaxTreeRows
    /\ again => Head(transforms).runs = 0
    /\ LET result == transform(pendingOperations, tree)
       IN  tree' = IF result.ok THEN result.tree ELSE tree
    /\ transforms' = IF again THEN <<[Head(transforms) EXCEPT !.runs = 1]>> \o Tail(transforms)
                     ELSE Tail(transforms)
    /\ lastFlush' = NoFlush
    /\ UNCHANGED <<pipe, stepStates, pendingOperations, flushTimer, timers, live, lastCall,
                   binderRows, roundTrip, pipelineUpdaters, timerAge, sinceEnqueue, aggVars>>

NextContainer ==
    \/ ContainerAdd
    \/ ContainerRemove
    \/ TimerFires
    \/ ForceFlush
    \/ FlushKept
    \/ \E again \in BOOLEAN : ContainerInvokes(again)

\* ================================================== what the pipeline owes
\* the group keys of a row along the groupBy steps, outermost first
GroupPath(immutableProps) ==
    LET groupings == SelectSeq(Steps, LAMBDA step : step.kind = "groupBy")
    IN  [i \in 1..Len(groupings) |-> immutableProps[groupings[i].groupingProperty]]

\* the live rows grouped under the group row with the given key path
LiveUnder(groupPath) ==
    {i \in 1..Len(live) :
        SubSeq(GroupPath(live[i].immutableProps), 1, Len(groupPath)) = groupPath}

\* max of v over the live rows under a group row, from scratch
FreshTop(groupPath) ==
    LET values == {Val(live[i].immutableProps.v) : i \in LiveUnder(groupPath)}
    IN  IF values = {} THEN Undef ELSE Num(GreatestOf(values))

\* the same pipeline built fresh and fed the live adds in their order
RECURSIVE FreshOperations(_, _)
FreshOperations(states, rows) ==
    IF rows = <<>> THEN <<>>
    ELSE LET Then(run) ==
                 buildAll(Steps, Last(run.streams)) \o FreshOperations(run.states, Tail(rows))
         IN  Then(RunPipeline(Steps, states,
                              <<Input_add(Head(rows).key, Head(rows).immutableProps)>>, 1))

FreshTree ==
    LET result == transform(FreshOperations([i \in 1..Len(Steps) |-> StepInit(Steps[i])], live),
                            <<>>)
    IN  IF result.ok THEN result.tree ELSE <<>>

\* C1: after a force_flush the materialized tree equals the tree of the same
\* pipeline built fresh and fed, in their original order, only the adds that
\* were not removed later.
C1_ReplayEquivalence ==
    lastFlush.op = "forceFlush" => tree = FreshTree

\* C5: in the cascade pipeline (max -> defineProperty with a declared
\* dependency -> min over the defined property) the value the downstream min
\* last emitted for a category equals the minimum, over the category's live
\* products, of the defined property computed from the current source rows.
C5_CascadeFresh ==
    pipe = "cascade" =>
        \A c \in Categories :
            LET products == {p \in ProductNames : LiveUnder(<<c, p>>) # {}}
                adjusted == {Val(compute([top |-> FreshTop(<<c, p>>)])) : p \in products}
                emitted == Get(stepStates[Len(Steps)].aggregateValues, <<c>>)
            IN  emitted = IF products = {} THEN Undef ELSE Num(LeastOf(adjusted))

HasFilter == \E i \in 1..Len(Steps) : Steps[i].kind = "filter"

FilterIndex == CHOOSE i \in 1..Len(Steps) : Steps[i].kind = "filter"

FilterScope == Steps[FilterIndex].scopeSegments

\* the key path of the row at the filter's scope that an event at or below
\* the scope belongs to
ScopeRowPath(e) == SubSeq(e.keyPath \o <<e.key>>, 1, Len(FilterScope) + 1)

\* C6: no added event reaches the binder for a row at the filter's scope, or
\* for a row below it, while the predicate is false on the scope row's
\* current value.
C6_NoAddedWhileFalse ==
    HasFilter =>
        \A i \in 1..Len(Delivered) :
            LET e == Delivered[i]
            IN  (e.type = "added" /\ pathStartsWith(e.pathSegments, FilterScope))
                    => predicate([top |-> FreshTop(ScopeRowPath(e))])

\* C7: for every modified event of a declared dependency that reaches the
\* filter for a row at its scope, the filter emits added when the predicate
\* goes from false (old value) to true (new value), removed when it goes
\* from true to false, and neither when the result is the same.
C7_ReevaluatesOnModified ==
    (HasFilter /\ lastCall # NoCall) =>
        LET arriving == lastCall[FilterIndex]
            leaving == lastCall[FilterIndex + 1]
            emits(type, row) ==
                \E j \in 1..Len(leaving) : leaving[j].type = type /\ RowOf(leaving[j]) = row
        IN  \A i \in 1..Len(arriving) :
                LET e == arriving[i]
                    was == predicate(With(EmptyMap, e.propertyName, e.oldValue))
                    now == predicate(With(EmptyMap, e.propertyName, e.newValue))
                IN  (/\ e.type = "modified"
                     /\ pathsMatch(e.pathSegments, FilterScope)
                     /\ e.propertyName \in Steps[FilterIndex].mutableProperties)
                        => /\ emits("added", RowOf(e)) = (~was /\ now)
                           /\ emits("removed", RowOf(e)) = (was /\ ~now)

\* the operations applied one after the other, the last enqueued last
RECURSIVE InEnqueueOrder(_, _)
InEnqueueOrder(operations, state) ==
    IF operations = <<>> THEN Ok(state)
    ELSE LET before == InEnqueueOrder(Front(operations), state)
         IN  IF before.ok THEN ApplyOperation(before.tree, Last(operations)) ELSE before

\* C8: a flush of a non-empty queue calls set_state once, with a transform
\* whose result is that of applying every queued operation in enqueue order
\* (the new tree, or the exception the first failing operation raises); a
\* flush of an empty queue does not call set_state and leaves the tree.
C8_FlushInOrder ==
    lastFlush.op # "none" =>
        IF lastFlush.queued = <<>>
        THEN lastFlush.calls = 0 /\ tree = lastFlush.before
        ELSE /\ lastFlush.calls = 1
             /\ lastFlush.result = InEnqueueOrder(lastFlush.queued, lastFlush.before)
             /\ tree = IF lastFlush.result.ok THEN lastFlush.result.tree ELSE lastFlush.before

\* a flushed queue held a remove of a row followed by an add of the same row,
\* and the row is in the tree afterwards
C8_Witness ==
    /\ lastFlush.calls = 1
    /\ lastFlush.result.ok
    /\ \E i, j \in 1..Len(lastFlush.queued) :
           /\ i < j
           /\ lastFlush.queued[i].type = "remove"
           /\ lastFlush.queued[j].type = "add"
           /\ lastFlush.queued[i].segmentPath = <<>>
           /\ lastFlush.queued[j].segmentPath = <<>>
           /\ lastFlush.queued[i].key = lastFlush.queued[j].key
           /\ createKeyToIndexMap(tree, lastFlush.queued[i].key) # 0

\* C9: no flush raises "Path references unknown item": every add at a
\* non-root path finds the parent row its key path addresses.
C9_NoUnknownItem ==
    lastFlush.result.error # "Path references unknown item when setting state"

RECURSIVE WellOrdered(_, _)
WellOrdered(rows, events) ==
    IF events = <<>> THEN TRUE
    ELSE LET e == Head(events)
         IN  /\ e.type = "added" \/ (Has(rows, RowOf(e)) /\ rows[RowOf(e)] = "added")
             /\ WellOrdered(Deliver(rows, <<e>>), Tail(events))

\* C10: the events the last step hands to the binder are well ordered per
\* row: a modified or removed comes only for a row whose last added /
\* removed event was an added.
C10_WellOrdered == [][WellOrdered(binderRows, Delivered')]_vars

\* a row was removed from the binder, and in the last call another row was
\* added again and then modified
C10_Witness ==
    /\ \E row \in DOMAIN binderRows : binderRows[row] = "removed"
    /\ \E i, j \in 1..Len(Delivered) :
           /\ i < j
           /\ Delivered[i].type = "added"
           /\ Delivered[j].type = "modified"
           /\ RowOf(Delivered[i]) = RowOf(Delivered[j])

\* the tree a full flush of the operations leaves
FlushedTree(operations, state) ==
    LET Then(result) == IF result.ok THEN result.tree ELSE state
    IN  Then(transform(operations, state))

\* C11: add(k, p), then remove(k, p), then a force_flush leave the tree the
\* flush would have left without the two calls: the tree before the add when
\* the queue was empty, else that tree with the operations queued before the
\* add applied (same rows, same order, same property values).
C11_AddRemoveRestores ==
    roundTrip.stage = "flushed" =>
        tree = FlushedTree(SubSeq(lastFlush.queued, 1, roundTrip.queued), lastFlush.before)

\* the add of the round trip found an empty queue and a tree with a group row;
\* it raised an aggregate of that row, the remove took it back, and the flush
\* applied both
C11_Witness ==
    /\ roundTrip.stage = "flushed"
    /\ roundTrip.queued = 0
    /\ lastFlush.result.ok
    /\ tree # <<>>
    /\ \E i \in 1..Len(lastFlush.queued) : lastFlush.queued[i].type = "modify"

\* ------------------------------------------------ what the transforms owe
\* the rows of a tree in document order, each as its key path with its key
RECURSIVE Flatten(_, _, _)
Flatten(state, depth, prefix) ==
    IF state = <<>> THEN <<>>
    ELSE LET row == prefix \o <<Head(state).key>>
         IN  <<row>>
             \o (IF depth < MaxDepth
                 THEN Flatten(Get(Head(state).value, OpSegments[depth + 1]), depth + 1, row)
                 ELSE <<>>)
             \o Flatten(Tail(state), depth, prefix)

RECURSIVE IsSubseq(_, _)
IsSubseq(a, b) ==
    IF a = <<>> THEN TRUE
    ELSE IF b = <<>> THEN FALSE
    ELSE IF Head(a) = Head(b) THEN IsSubseq(Tail(a), Tail(b))
    ELSE IsSubseq(a, Tail(b))

\* some row with the key path's keys, level by level, is in the tree
RECURSIVE Present(_, _, _)
Present(state, depth, keyPath) ==
    \/ keyPath = <<>>
    \/ \E i \in 1..Len(state) :
           /\ state[i].key = keyPath[1]
           /\ \/ Len(keyPath) = 1
              \/ Present(Get(state[i].value, OpSegments[depth + 1]), depth + 1, Tail(keyPath))

\* the operations the last flush applied, each with the tree it was applied
\* to and what it returned; an exception ends the transform
RECURSIVE Applications(_, _)
Applications(state, operations) ==
    IF operations = <<>> THEN <<>>
    ELSE LET result == ApplyOperation(state, Head(operations))
         IN  <<[before |-> state, op |-> Head(operations), result |-> result]>>
             \o (IF result.ok THEN Applications(result.tree, Tail(operations)) ELSE <<>>)

LastApplications == Applications(lastFlush.before, lastFlush.queued)

OpKeepsOrder(before, op, after) ==
    LET b == Flatten(before, 0, <<>>)
        a == Flatten(after, 0, <<>>)
        row == op.keyPath \o <<op.key>>
    IN  CASE op.type = "add" ->
               \E i \in 1..Len(a) :
                   /\ a[i] = row
                   /\ b = SubSeq(a, 1, i - 1) \o SubSeq(a, i + 1, Len(a))
                   /\ \A j \in (i + 1)..Len(a) : Front(a[j]) # op.keyPath
          [] op.type = "remove" ->
               /\ IsSubseq(a, b)
               /\ IsSubseq(SelectSeq(b, LAMBDA r : ~pathStartsWith(r, row)), a)
          [] OTHER -> a = b

\* C12: in every keyed array, at every level, the rows keep the order of
\* their adds: an applied add puts its row after every row of the array it
\* goes to and moves no other row, an applied remove or modify leaves the
\* other rows in the order they had.
C12_OrderOfAdds ==
    \A i \in DOMAIN LastApplications :
        LastApplications[i].result.ok =>
            OpKeepsOrder(LastApplications[i].before, LastApplications[i].op,
                         LastApplications[i].result.tree)

\* a flush removed the first of two rows of a nested array
C12_Witness ==
    \E i \in DOMAIN LastApplications :
        LET app == LastApplications[i]
            rows == Flatten(app.before, 0, <<>>)
        IN  /\ app.op.type = "remove"
            /\ app.op.segmentPath # <<>>
            /\ app.result.ok
            /\ \E m, n \in 1..Len(rows) :
                   /\ m < n
                   /\ rows[m] = app.op.keyPath \o <<app.op.key>>
                   /\ Front(rows[n]) = app.op.keyPath
                   /\ rows[n] # rows[m]

\* C18: an add at a non-root segment path whose key path names, at some
\* level, a parent that is not in the tree throws "Path references unknown
\* item" and produces no tree.
C18_UnknownParentThrows ==
    \A i \in DOMAIN LastApplications :
        LET app == LastApplications[i]
        IN  (/\ app.op.type = "add"
             /\ app.op.segmentPath # <<>>
             /\ ~Present(app.before, 0, app.op.keyPath))
            => (/\ ~app.result.ok
                /\ app.result.error = "Path references unknown item when setting state")

\* an add two levels down found the first parent of its key path and not the
\* second
C18_Witness ==
    \E i \in DOMAIN LastApplications :
        LET app == LastApplications[i]
        IN  /\ app.op.type = "add"
            /\ Len(app.op.keyPath) = 2
            /\ Present(app.before, 0, <<app.op.keyPath[1]>>)
            /\ ~Present(app.before, 0, app.op.keyPath)
            /\ ~app.result.ok

\* C19: a remove or modify whose target row, or a parent on its key path, is
\* not in the tree throws nothing and returns the tree it was given.
C19_MissingTargetSkipped ==
    \A i \in DOMAIN LastApplications :
        LET app == LastApplications[i]
        IN  (/\ app.op.type \in {"remove", "modify"}
             /\ ~Present(app.before, 0, app.op.keyPath \o <<app.op.key>>))
            => (app.result.ok /\ app.result.tree = app.before)

InBucket(b) == {i \in 1..Len(live) : live[i].immutableProps.bucket = b}

\* what a modified event for the bucket of a live row must make the
\* group-by emit, told from the caller's rows
ExpectedRegroup(key, newValue) ==
    LET props == LiveRow(key).immutableProps
        old == props.bucket
        rest == Without(props, {"bucket"})
    IN  IF newValue = old THEN <<>>
        ELSE <<RemovedEvent(<<"entities">>, <<old>>, key, rest)>>
             \o (IF Cardinality(InBucket(old)) = 1
                 THEN <<RemovedEvent(<<>>, <<>>, old, [bucket |-> old])>> ELSE <<>>)
             \o (IF InBucket(newValue) = {}
                 THEN <<AddedEvent(<<>>, <<>>, newValue, [bucket |-> newValue])>> ELSE <<>>)
             \o <<AddedEvent(<<"entities">>, <<newValue>>, key, rest)>>

\* C13: a modified event on the mutable grouping property that changes the
\* row's group key makes group_by emit exactly: removed for the child under
\* the old group, removed for the old group if it is now empty, added for
\* the new group if the row is its first member, added for the child under
\* the new group, in this order; an unchanged group key makes it emit
\* nothing.
C13_RegroupOrder ==
    [][(lastCall' # NoCall /\ lastCall'[1][1].type = "modified") =>
           Last(lastCall') = ExpectedRegroup(lastCall'[1][1].key, lastCall'[1][1].newValue)]_vars

\* the last member of a group moved to a group it is the first member of
C13_Witness ==
    /\ lastCall # NoCall
    /\ lastCall[1][1].type = "modified"
    /\ Len(Delivered) = 4
    /\ binderRows[<<<<>>, <<>>, lastCall[1][1].oldValue>>] = "removed"

GroupBys == SelectSeq(Steps, LAMBDA step : step.kind = "groupBy")

\* the group rows a row with these props is a member of, one per group-by
GroupRowsOf(props) ==
    {<<[j \in 1..(k - 1) |-> GroupBys[j].arrayName],
       [j \in 1..(k - 1) |-> props[GroupBys[j].groupingProperty]],
       props[GroupBys[k].groupingProperty]>> : k \in 1..Len(GroupBys)}

LiveGroupRows == UNION {GroupRowsOf(live[i].immutableProps) : i \in 1..Len(live)}

IsGroupRow(row) == Len(row[1]) < Len(GroupBys)

Below(e, group) ==
    /\ Len(e.pathSegments) > Len(group.pathSegments)
    /\ pathStartsWith(e.keyPath, group.keyPath \o <<group.key>>)

\* C14: downstream a group row exists exactly while the group has a member:
\* the group's added comes before the added of a row below it, its removed
\* after the removed of every row below it, and with nested group-bys the
\* parent group's removed comes after the removed of its last nested group.
C14_GroupWhileMembers ==
    /\ \A row \in {r \in DOMAIN binderRows : IsGroupRow(r)} \cup LiveGroupRows :
           (Has(binderRows, row) /\ binderRows[row] = "added") <=> row \in LiveGroupRows
    /\ \A i, j \in 1..Len(Delivered) :
           (/\ IsGroupRow(RowOf(Delivered[i]))
            /\ Delivered[j].type = Delivered[i].type
            /\ Below(Delivered[j], Delivered[i]))
           => IF Delivered[i].type = "added" THEN i < j ELSE j < i

\* the last order of the only product of a category was removed while
\* another category lives: order, product and category leave in this order
C14_Witness ==
    /\ live # <<>>
    /\ Len(Delivered) = 3
    /\ Delivered[1].type = "removed" /\ Delivered[1].pathSegments = <<"products", "orders">>
    /\ Delivered[2].type = "removed" /\ Delivered[2].pathSegments = <<"products">>
    /\ Delivered[3].type = "removed" /\ Delivered[3].pathSegments = <<>>

\* ------------------------------------------- what auto-detection owes
\* the properties that the first n steps make changeable on the rows at a
\* segment path: an aggregate's property on the parent of its array, a
\* computed property with dependencies on the rows of its scope
MutableAt(steps, n, pathSegments) ==
    {steps[j].propertyName :
        j \in {k \in 1..n :
                 \/ steps[k].kind = "minmax" /\ Front(steps[k].segmentPath) = pathSegments
                 \/ /\ steps[k].kind = "defineProperty"
                    /\ steps[k].mutableProperties # {}
                    /\ steps[k].scopeSegments = pathSegments}}

Aggregates == {i \in 1..Len(Steps) : Steps[i].kind = "minmax"}

\* C15: an aggregate subscribes to modified for the child property it reads
\* if and only if the steps above it make that property changeable on the
\* child rows; an aggregate over a property that is not changeable there
\* emits a new value only in a call that brought it a child added or removed.
C15_SubscribesIffMutable ==
    \A i \in Aggregates :
        LET cfg == Steps[i]
            listed == cfg.numericProperty \in MutableAt(Steps, i - 1, cfg.segmentPath)
        IN  /\ cfg.isPropertyMutable <=> listed
            /\ (~listed /\ lastCall # NoCall) =>
                   \A m \in 1..Len(lastCall[i + 1]) :
                       (/\ lastCall[i + 1][m].type = "modified"
                        /\ lastCall[i + 1][m].propertyName = cfg.propertyName
                        /\ lastCall[i + 1][m].pathSegments = MinMax_parentPath(cfg))
                       => \E n \in 1..Len(lastCall[i]) :
                              /\ lastCall[i][n].type \in {"added", "removed"}
                              /\ lastCall[i][n].pathSegments = cfg.segmentPath

\* ------------------------------------------- what define-property owes
DefineProperties == {i \in 1..Len(Steps) : Steps[i].kind = "defineProperty"}

\* what the modified events for a dependency in the stream a define-property
\* step receives must make it emit, told from the events alone: the value
\* computed from the old value of the dependency is the cached one
RECURSIVE ExpectedRecomputed(_, _)
ExpectedRecomputed(cfg, events) ==
    IF events = <<>> THEN <<>>
    ELSE LET e == Head(events)
             old == compute([name \in {e.propertyName} |-> e.oldValue])
             new == compute([name \in {e.propertyName} |-> e.newValue])
         IN  (IF /\ e.type = "modified"
                 /\ e.pathSegments = cfg.scopeSegments
                 /\ e.propertyName \in cfg.mutableProperties
                 /\ old # new
              THEN <<ModifiedEvent(cfg.scopeSegments, cfg.propertyName, e.keyPath, e.key,
                                   old, new)>>
              ELSE <<>>)
             \o ExpectedRecomputed(cfg, Tail(events))

\* C17: on a modified event for a declared dependency of a row at its scope,
\* define_property emits modified for its property if and only if the
\* recomputed value differs from the value cached for the row, with the
\* cached value as old and the recomputed value as new, and emits nothing
\* when the value is the same.
C17_EmitsIffChanged ==
    \A i \in DefineProperties :
        lastCall # NoCall =>
            SelectSeq(lastCall[i + 1],
                      LAMBDA e : e.type = "modified" /\ e.propertyName = Steps[i].propertyName)
            = ExpectedRecomputed(Steps[i], lastCall[i])

\* ------------------------------------------------- what the updater owes
\* the flush of the last step threw
FlushThrew == lastFlush.op # "none" /\ ~lastFlush.result.ok

\* C21: an enqueue that brings the queue to batchSize flushes the queue, the
\* operation just pushed included, inside the call; after an enqueue that
\* returns, the queue is shorter than batchSize.
C21_BatchFlushedInCall ==
    [][(BatchedAdd \/ BatchedRemove \/ BatchedOrphan) =>
          /\ Len(pendingOperations) + 1 >= batchSize =>
                 /\ lastFlush'.op = "batch"
                 /\ Len(lastFlush'.queued) = Len(pendingOperations) + 1
                 /\ Front(lastFlush'.queued) = pendingOperations
          /\ ~FlushThrew' =>
                 /\ Len(pendingOperations') < batchSize
                 /\ lastFlush'.op = "batch" =>
                        pendingOperations' = <<>> /\ tree' = lastFlush'.result.tree]_vars

\* the enqueue that made the queue batchSize long has flushed it
C21_Witness ==
    /\ lastFlush.op = "batch"
    /\ lastFlush.result.ok
    /\ Len(lastFlush.queued) = batchSize
    /\ pendingOperations = <<>>
    /\ ~flushTimer

\* C24: disposeBatchedUpdates leaves the updater with an empty queue and no
\* armed timer, the dropped operations never reaching the tree, and leaves
\* the registry without the pipeline; a flush request for a pipeline the
\* registry does not hold changes nothing.
C24_DisposedAndUnregistered ==
    [][/\ DisposeBatchedUpdates =>
              /\ pendingOperations' = <<>>
              /\ ~flushTimer'
              /\ ~pipelineUpdaters'
              /\ tree' = tree
       /\ (FlushBatchedUpdates /\ ~pipelineUpdaters) =>
              UNCHANGED <<pendingOperations, flushTimer, tree, pipelineUpdaters>>]_vars

\* the pipeline was disposed of with the add of its live row still queued:
\* the row is in no queue and not in the tree
C24_Witness ==
    /\ ~pipelineUpdaters
    /\ pendingOperations = <<>>
    /\ ~flushTimer
    /\ live # <<>>
    /\ tree = <<>>

\* C22: when the timer fires, flushDelayMs have passed since the most
\* recent enqueue.
C22_TimerFromLastEnqueue ==
    [][TimerElapses => sinceEnqueue = flushDelayMs]_vars

\* C23: whenever the container invokes a transform it was handed, the tree
\* it gets back is the tree it passed in with exactly the operations applied
\* that were queued when the flush that handed the transform over started.
C23_TransformOfItsQueue ==
    [][\A again \in BOOLEAN :
           ContainerInvokes(again) =>
               tree' = FlushedTree(Head(transforms).queued, tree)]_vars

\* ------------------------------------------------ what the descriptor owes
\* the steps that synthesize a changeable property, and the segment path of
\* the rows that carry it
Synthesizers ==
    {i \in 1..Len(Steps) :
        \/ Steps[i].kind = "minmax"
        \/ Steps[i].kind = "defineProperty" /\ Steps[i].mutableProperties # {}}

CarrierPath(cfg) ==
    IF cfg.kind = "minmax" THEN Front(cfg.segmentPath) ELSE cfg.scopeSegments

\* C25: the descriptor a synthesizing step returns lists the step's property
\* at the node of the rows that carry it, and every other node lists what it
\* listed in the step's input descriptor.
C25_ListedAtItsLevel ==
    \A i \in Synthesizers :
        LET output == getTypeDescriptor(Steps, i)
            input == getTypeDescriptor(Steps, i - 1)
            P == CarrierPath(Steps[i])
        IN  /\ P \in DOMAIN output
            /\ Steps[i].propertyName \in output[P]
            /\ \A Q \in DOMAIN output \ {P} : output[Q] = input[Q]

\* ------------------------------------------------ what every step owes
\* the events a step intercepts: a group-by the added and removed of its
\* scope and of the array it makes (and the modified of a changeable
\* grouping property); an aggregate
\* the channel of its own property on the parent rows; a define-property
\* the added and removed of its scope and the channel of its own property;
\* a filter everything at its scope and below
Intercepts(cfg, e) ==
    CASE cfg.kind = "groupBy" ->
           \/ /\ pathsMatch(e.pathSegments, cfg.scopeSegments)
              /\ \/ e.type \in {"added", "removed"}
                 \/ cfg.mutableGrouping /\ e.propertyName = cfg.groupingProperty
           \/ /\ pathsMatch(e.pathSegments, cfg.scopeSegments \o <<cfg.arrayName>>)
              /\ e.type \in {"added", "removed"}
      [] cfg.kind = "minmax" ->
           /\ e.type = "modified"
           /\ pathsMatch(e.pathSegments, MinMax_parentPath(cfg))
           /\ e.propertyName = cfg.propertyName
      [] cfg.kind = "defineProperty" ->
           /\ pathsMatch(e.pathSegments, cfg.scopeSegments)
           /\ \/ e.type \in {"added", "removed"}
              \/ e.propertyName = cfg.propertyName
      [] cfg.kind = "filter" ->
           isAtScopeSegments(cfg, e.pathSegments) \/ isNestedPath(cfg, e.pathSegments)
      [] OTHER -> FALSE

\* the events of a stream that the step does not intercept
PassedBy(cfg, events) == SelectSeq(events, LAMBDA e : ~Intercepts(cfg, e))

\* C26: in every call, the events a step delivers outside what it
\* intercepts are the events it received outside what it intercepts, each
\* with its payload, in the order received.
C26_ForwardsUntouched ==
    \A i \in 1..Len(Steps) :
        lastCall # NoCall =>
            PassedBy(Steps[i], lastCall[i + 1]) = PassedBy(Steps[i], lastCall[i])

\* a step received a modified and a removed it does not intercept in one
\* call and delivered events of its own as well
C26_Witness ==
    /\ lastCall # NoCall
    /\ \E i \in 1..Len(Steps) :
           LET passed == PassedBy(Steps[i], lastCall[i])
           IN  /\ \E m \in 1..Len(passed) : passed[m].type = "modified"
               /\ \E m \in 1..Len(passed) : passed[m].type = "removed"
               /\ Len(lastCall[i + 1]) > Len(passed)

\* ------------------------------------------------ what the filter's replay owes
Filters == {i \in 1..Len(Steps) : Steps[i].kind = "filter"}

\* events as they arrived, whichever handler they are handed to
AsArrived(events) == [i \in 1..Len(events) |-> [events[i] EXCEPT !.single = FALSE]]

\* the events held back for a row: in the order of their arrival, or the
\* adds in the order of their arrival and then the modifications in theirs
HeldFor(st, key, inArrivalOrder) ==
    LET held == Get(st.arrived, key)
    IN  IF inArrivalOrder THEN held
        ELSE SelectSeq(held, LAMBDA e : e.type = "added")
             \o SelectSeq(held, LAMBDA e : e.type = "modified")

\* the filter handles the events of a call one after the other; whenever one
\* of them takes a row from not passing to passing, the filter delivers added
\* for the row, then the events held back for it, and holds none for it after
RECURSIVE ReplaysOnPassing(_, _, _, _)
ReplaysOnPassing(cfg, st, events, inArrivalOrder) ==
    IF events = <<>> THEN TRUE
    ELSE LET e == Head(events)
             Then(r) ==
                 LET held == HeldFor(st, e.key, inArrivalOrder)
                 IN  /\ (/\ e.type = "modified"
                         /\ isAtScopeSegments(cfg, e.pathSegments)
                         /\ Has(st.itemStates, e.key)
                         /\ ~Filter_passed(st, e.key)
                         /\ Filter_passed(r.st, e.key)) =>
                            /\ Len(r.out) >= 1 + Len(held)
                            /\ r.out[1].type = "added"
                            /\ RowOf(r.out[1]) = <<cfg.scopeSegments, st.itemStates[e.key].keyPath, e.key>>
                            /\ AsArrived(SubSeq(r.out, 2, 1 + Len(held))) = held
                            /\ \A m \in (2 + Len(held))..Len(r.out) : r.out[m] = e
                            /\ ~Has(r.st.pendingNestedAdds, e.key)
                            /\ ~Has(r.st.pendingNestedModifications, e.key)
                     /\ ReplaysOnPassing(cfg, r.st, Tail(events), inArrivalOrder)
         IN  Then(FilterStep(cfg, st, e))

\* C27 as stated: on a row's transition from not passing to passing the
\* filter emits added for the row, then the nested events held back for it
\* in the order in which they arrived, and its pending buffers are empty after.
C27_ReplayInArrivalOrder ==
    [][lastCall' # NoCall =>
           \A i \in Filters : ReplaysOnPassing(Steps[i], stepStates[i], lastCall'[i], TRUE)]_vars

\* C27 as amended: added for the row, then the held-back adds in the order
\* in which they arrived, then the held-back modifications in the order in
\* which they arrived; the row's pending buffers are empty after.
C27_ReplayAddsThenModifications ==
    [][lastCall' # NoCall =>
           \A i \in Filters : ReplaysOnPassing(Steps[i], stepStates[i], lastCall'[i], FALSE)]_vars

\* the binder was handed added for a group, held-back adds and a held-back
\* modification in one call
C27_Witness ==
    /\ lastCall # NoCall
    /\ \E m \in 1..Len(Delivered) :
           /\ Delivered[m].type = "added"
           /\ Delivered[m].pathSegments = <<>>
           /\ \E n \in (m + 1)..Len(Delivered) :
                  Delivered[n].type = "added" /\ Delivered[n].pathSegments # <<>>
           /\ \E n \in (m + 1)..Len(Delivered) :
                  Delivered[n].type = "modified" /\ Delivered[n].single

\* ------------------------------------------------ what a passing row owes
\* the tree once everything queued is flushed
Materialized == FlushedTree(pendingOperations, tree)

\* the rows of the array `segment` of the root row `parent` in a tree
ChildrenIn(state, parent, segment) ==
    LET rows == SelectSeq(state, LAMBDA row : row.key = parent)
    IN  IF rows = <<>> THEN {}
        ELSE LET children == Get(rows[1].value, segment)
             IN  {children[m].key : m \in 1..Len(children)}

\* the filters at the root scope, whose rows are the groups of the first step
RootFilters == {i \in Filters : Steps[i].scopeSegments = <<>>}

\* the rows a caller has added and not removed that belong to a group
MembersOf(group) ==
    {live[m].key : m \in {n \in 1..Len(live) :
                             live[n].immutableProps[Steps[1].groupingProperty] = group}}

\* C28: a group that passes the filter again after it had stopped passing,
\* without having been removed upstream, has under its row in the tree every
\* row that is live upstream in it (pipeline rootFilter: the rows of a group
\* are its orders).
C28_ChildrenBackAfterRepass ==
    \A i \in RootFilters :
        \A group \in DOMAIN stepStates[i].itemStates :
            (/\ pipe = "rootFilter"
             /\ Filter_passed(stepStates[i], group)
             /\ group \in stepStates[i].stopped) =>
                MembersOf(group) \subseteq ChildrenIn(Materialized, group, Steps[1].arrayName)

\* ------------------------------------------------ what a replay may deliver
\* the call handed the binder added for the group `parent` before position m:
\* the group went from not passing to passing in the call
PassedInCall(parent, m) ==
    \E n \in 1..(m - 1) :
        /\ Delivered[n].type = "added"
        /\ RowOf(Delivered[n]) = <<<<>>, <<>>, parent>>

\* a row the caller has added and not removed is what the event e adds
LiveAs(e) ==
    \E n \in 1..Len(live) :
        /\ live[n].key = e.key
        /\ Without(live[n].immutableProps, {Steps[1].groupingProperty}) = e.immutableProps

\* C29: when a group passes the filter, the added events delivered under it
\* are for rows that are live upstream; a row that was added and removed
\* while the group was not passing is not among them (pipeline rootFilter).
C29_RemovedChildNotReplayed ==
    pipe = "rootFilter" =>
        \A m \in 1..Len(Delivered) :
            (/\ Delivered[m].type = "added"
             /\ Delivered[m].pathSegments = <<Steps[1].arrayName>>
             /\ PassedInCall(Delivered[m].keyPath[1], m)) => LiveAs(Delivered[m])

\* ------------------------------------------- state and downstream handlers
\* the steps whose wrappers keep state of their own for the rows they see
Wrapping == {i \in 1..Len(Steps) : Steps[i].kind \in {"filter", "defineProperty"}}

StepWhenHandlerThrows(cfg, st, e) ==
    IF cfg.kind = "filter" THEN Filter_whenHandlerThrows(cfg, st, e)
    ELSE DefineProperty_whenHandlerThrows(cfg, st, e)

StepProcessed(cfg, st, e) ==
    IF cfg.kind = "filter" THEN FilterStep(cfg, st, e)
    ELSE DefinePropertyStep(cfg, st, e)

\* the step handles the events of a call one after the other; for each event
\* for which it invokes a downstream handler, a throw of that handler leaves
\* the state the step has once the event is fully processed
RECURSIVE SettledBeforeEmitting(_, _, _)
SettledBeforeEmitting(cfg, st, events) ==
    IF events = <<>> THEN TRUE
    ELSE LET e == Head(events)
             Then(r) ==
                 /\ r.out # <<>> => StepWhenHandlerThrows(cfg, st, e) = r.st
                 /\ SettledBeforeEmitting(cfg, r.st, Tail(events))
         IN  Then(StepProcessed(cfg, st, e))

\* C30: for every event a filter or define-property step handles, the changes
\* it makes to its own state are complete before it invokes a downstream
\* handler: a handler that throws leaves the state of the fully processed event.
C30_StateBeforeEmission ==
    [][lastCall' # NoCall =>
           \A i \in Wrapping : SettledBeforeEmitting(Steps[i], stepStates[i], lastCall'[i])]_vars

\* ------------------------------------------- the aggregates' per-parent state
\* the parents an aggregate step holds a record for, in any of its maps
ParentsHeld(name, st) ==
    CASE name \in {"min", "max"} ->
             DOMAIN st.valueStore \cup DOMAIN st.aggregateValues \cup DOMAIN st.itemValues
      [] name = "average" ->
             DOMAIN st.averageStates \cup DOMAIN st.aggregateValues \cup DOMAIN st.itemValues
      [] OTHER ->
             DOMAIN st.pickedItemStore \cup DOMAIN st.comparisonValueStore
             \cup DOMAIN st.pickedItemValues \cup DOMAIN st.itemData

HasLiveChild(parent) == \E key \in AggKeys : IsLiveChild(parent, key)

\* C31: an aggregate step holds a per-parent record (value list or sum and
\* count, per-child value table, cached aggregate, stored pick) only for a
\* parent that has a live child: none remains after the last child is
\* removed, whether the aggregated property is mutable or not.
C31_StateOnlyWhileChildren ==
    \A name \in DOMAIN aggSteps, parent \in AggParents :
        <<parent>> \in ParentsHeld(name, aggSteps[name]) => HasLiveChild(parent)

\* ------------------------------------------------ one emission per event
\* the aggregate of a parent's live children: the least / greatest value, the
\* average as a reduced fraction, or the row of the extremal child that was
\* added first; absent when no live child has a value
AggregateOf(name, parent) ==
    LET keys == NumericChildren(parent)
    IN  IF keys = {} THEN Undef
        ELSE CASE name = "min" -> Num(LeastOf(NumericValues(parent)))
               [] name = "max" -> Num(GreatestOf(NumericValues(parent)))
               [] name = "average" -> Num(Divide(SumOver(parent, keys), Cardinality(keys)))
               [] OTHER ->
                    LET key == FirstAdded(parent, Extremal(name, parent))
                    IN  Num(With(aggChildren[<<parent, key>>].props, "v",
                                 aggChildren[<<parent, key>>].cur))

\* what the step hands its subscriber for one upstream event: at most one
\* modified, for the event's parent, from the value last handed over for
\* that parent to the aggregate after the event
EmitsOnce(emits, parent, lastEmitted, aggregateAfter) ==
    /\ Len(emits) <= 1
    /\ emits # <<>> =>
           /\ emits[1].key = parent
           /\ emits[1].old = lastEmitted
           /\ emits[1].new = aggregateAfter

\* C32: for one upstream added, removed or modified event of a child, each
\* aggregate step invokes its modified subscriber at most once, with the old
\* value it last emitted for the parent (absent if none) and the new value
\* equal to the aggregate of the parent's children after the event.
C32_OneEmissionPerEvent ==
    [][\A slot \in AggSlots, name \in DOMAIN aggSteps :
           /\ \A value \in AggValues :
                  (/\ aggLast'.op = "added" /\ aggLast'.parent = slot[1]
                   /\ aggLast'.new = value
                   /\ ChildAdded(slot[1], slot[2], value)) =>
                      EmitsOnce(Agg_added(name, aggSteps[name], <<slot[1]>>, slot[2],
                                          ChildRow(slot[2], value)).emits,
                                slot[1], aggEmitted[name][slot[1]],
                                AggregateOf(name, slot[1])')
           /\ (/\ aggLast'.op = "removed" /\ aggLast'.parent = slot[1]
               /\ ChildRemoved(slot[1], slot[2])) =>
                  EmitsOnce(Agg_removed(name, aggSteps[name], <<slot[1]>>, slot[2],
                                        aggChildren[slot].props).emits,
                            slot[1], aggEmitted[name][slot[1]],
                            AggregateOf(name, slot[1])')
           /\ \A value \in AggValues :
                  (/\ aggLast'.op = "modified" /\ aggLast'.parent = slot[1]
                   /\ aggLast'.new = value
                   /\ ChildModified(slot[1], slot[2], value)) =>
                      EmitsOnce(Agg_modified(name, aggSteps[name], <<slot[1]>>, slot[2],
                                             aggChildren[slot].cur, value).emits,
                                slot[1], aggEmitted[name][slot[1]],
                                AggregateOf(name, slot[1])')]_vars

\* the greatest value of a parent was removed while a sibling remained, and
\* the subscriber was handed the lower maximum
C32_Witness ==
    /\ "max" \in DOMAIN aggSteps
    /\ aggLast.op = "removed"
    /\ aggLast.old # Undef
    /\ NumericChildren(aggLast.parent) # {}
    /\ aggEmitted["max"][aggLast.parent] # Undef
    /\ Val(aggEmitted["max"][aggLast.parent]) < Val(aggLast.old)

\* ----------------------------------------- what define-property hands on removal
\* the handlers registered with step i for removed at its scope: one by each
\* later aggregate over the rows of the scope, at its construction, and one
\* by the binder, which later steps pass on to their input
RemovedHandlers(i) ==
    1 + Cardinality({j \in (i + 1)..Len(Steps) :
                        Steps[j].kind = "minmax" /\ Steps[j].segmentPath = Steps[i].scopeSegments})

\* the step handles the events of a call one after the other; for a removed
\* at its scope of a row it has cached, every handler is handed the row's
\* props with the defined property at the value last computed for the row,
\* and the row's cache is gone after
RECURSIVE RemovedCarriesLast(_, _, _, _)
RemovedCarriesLast(cfg, st, events, handlers) ==
    IF events = <<>> THEN TRUE
    ELSE LET e == Head(events)
             Then(r) ==
                 /\ (/\ e.type = "removed"
                     /\ pathsMatch(e.pathSegments, cfg.scopeSegments)
                     /\ Has(st.handed, <<e.keyPath, e.key>>)) =>
                        /\ \A n \in 1..handlers :
                               LET handed == DefineProperty_onRemoved_handlers(cfg, st, e, handlers)[n]
                               IN  /\ handed.type = "removed"
                                   /\ RowOf(handed) = RowOf(e)
                                   /\ handed.immutableProps =
                                          With(e.immutableProps, cfg.propertyName,
                                               st.handed[<<e.keyPath, e.key>>])
                        /\ ~Has(r.st.itemStates, e.key)
                 /\ RemovedCarriesLast(cfg, r.st, Tail(events), handlers)
         IN  Then(DefinePropertyStep(cfg, st, e))

\* C33: on an upstream removed for a row at its scope, define-property hands
\* every handler registered for removed the row's props extended with the
\* defined property at the value it last computed for the row, and holds no
\* cached state for the row afterwards.
C33_RemovedCarriesLastComputed ==
    [][lastCall' # NoCall =>
           \A i \in DefineProperties :
               RemovedCarriesLast(Steps[i], stepStates[i], lastCall'[i], RemovedHandlers(i))]_vars

\* --------------------------------------------- define-property's rows apart
\* the category of the row the call added or removed
CalledCategory(call) == call[1][1].immutableProps[Steps[1].groupingProperty]

\* C34: define-property keeps the cached state of two live rows at its scope
\* that have the same key under different parents apart: a call that adds or
\* removes a row of one category leaves the cache (mutable values, computed
\* value) used for a live product of another category as it was (pipeline
\* cascade: the rows at the scope are the products, keyed by p under c).
C34_SameKeyCachedApart ==
    [][lastCall' # NoCall =>
           \A i \in DefineProperties, c \in Categories, p \in ProductNames :
               (/\ c # CalledCategory(lastCall')
                /\ LiveUnder(<<c, p>>) # {}
                /\ Has(stepStates[i].itemStates, p)) =>
                   /\ Has(stepStates'[i].itemStates, p)
                   /\ stepStates'[i].itemStates[p].mutableValues =
                          stepStates[i].itemStates[p].mutableValues
                   /\ stepStates'[i].itemStates[p].computedValue =
                          stepStates[i].itemStates[p].computedValue]_vars

\* ============================================ pick-by-min/max, two properties
\* The pick steps alone over children that carry the comparison property v
\* and a second property w, which changes through modified events only. The
\* constructor subscribes to modified for every mutable property of the root
\* descriptor when, and only when, the comparison property is among them.
PickNames == {"pickByMin", "pickByMax"}

PickSubscribed(property) == aggMutable

PickChildrenInit ==
    /\ aggMutable \in BOOLEAN
    /\ aggSteps = [name \in PickNames |-> PickInit]
    /\ aggChildren = EmptyMap
    /\ aggEmitted = [name \in PickNames |-> [parent \in AggParents |-> Undef]]
    /\ aggLast = NoAggEvent
    /\ aggOrder = <<>>
    /\ pipe = "none"
    /\ stepStates = <<>>
    /\ pendingOperations = <<>>
    /\ flushTimer = FALSE
    /\ timers = 0
    /\ tree = <<>>
    /\ live = <<>>
    /\ lastFlush = NoFlush
    /\ lastCall = NoCall
    /\ binderRows = EmptyMap
    /\ roundTrip = NoRoundTrip
    /\ pipelineUpdaters = TRUE
    /\ timerAge = 0
    /\ sinceEnqueue = 0
    /\ transforms = <<>>

PickChildAdded(parent, key, value) ==
    /\ ~IsLiveChild(parent, key)
    /\ Cardinality(DOMAIN aggChildren) < MaxLiveMutable
    /\ LET item == ChildRow(key, value)
           out == [name \in PickNames |->
                      Pick_handleItemAdded(AggCfg(name), aggSteps[name], <<parent>>, key, item)]
       IN  /\ aggSteps' = [name \in PickNames |-> out[name].st]
           /\ aggEmitted' = [name \in PickNames |->
                                Subscribe(aggEmitted[name], out[name].emits)]
           /\ aggChildren' = With(aggChildren, <<parent, key>>,
                                  [props |-> item, cur |-> value, w |-> Undef])
    /\ aggLast' = [op |-> "added", parent |-> parent, old |-> Undef, new |-> value]
    /\ aggOrder' = Append(aggOrder, <<parent, key>>)
    /\ UNCHANGED <<aggMutable, pipeVars, hostVars>>

PickChildRemoved(parent, key) ==
    /\ IsLiveChild(parent, key)
    /\ LET item == aggChildren[<<parent, key>>].props
           out == [name \in PickNames |->
                      Pick_handleItemRemoved(AggCfg(name), aggSteps[name], <<parent>>, key, item)]
       IN  /\ aggSteps' = [name \in PickNames |-> out[name].st]
           /\ aggEmitted' = [name \in PickNames |->
                                Subscribe(aggEmitted[name], out[name].emits)]
           /\ aggChildren' = Del(aggChildren, <<parent, key>>)
    /\ aggLast' = [op |-> "removed", parent |-> parent,
                   old |-> aggChildren[<<parent, key>>].cur, new |-> Undef]
    /\ aggOrder' = SelectSeq(aggOrder, LAMBDA slot : slot # <<parent, key>>)
    /\ UNCHANGED <<aggMutable, pipeVars, hostVars>>

\* a modified event of a child for v (only when v is mutable) or for w; the
\* step's handler runs when the constructor subscribed to the property
PickChildModified(parent, key, property, newValue) ==
    /\ IsLiveChild(parent, key)
    /\ property = "v" => aggMutable
    /\ LET child == aggChildren[<<parent, key>>]
           out == [name \in PickNames |->
                      IF PickSubscribed(property)
                      THEN Pick_handleMutablePropertyChanged(
                               AggCfg(name), aggSteps[name], <<parent>>, key, property, newValue)
                      ELSE [st |-> aggSteps[name], emits |-> <<>>]]
       IN  /\ aggSteps' = [name \in PickNames |-> out[name].st]
           /\ aggEmitted' = [name \in PickNames |->
                                Subscribe(aggEmitted[name], out[name].emits)]
           /\ aggChildren' = With(aggChildren, <<parent, key>>,
                                  IF property = "v" THEN [child EXCEPT !.cur = newValue]
                                  ELSE [child EXCEPT !.w = newValue])
           /\ aggLast' = [op |-> "modified", parent |-> parent,
                          old |-> IF property = "v" THEN child.cur ELSE child.w,
                          new |-> newValue]
    /\ UNCHANGED <<aggMutable, aggOrder, pipeVars, hostVars>>

\* the children of one parent, and the values w takes
PickSlots == {slot \in AggSlots : slot[1] = "g1" /\ slot[2] \in {RowNames[1], RowNames[2]}}

PickSecondValues == {Undef, Num(1)}

NextPick ==
    \/ \E slot \in PickSlots, value \in AggValues : PickChildAdded(slot[1], slot[2], value)
    \/ \E slot \in PickSlots : PickChildRemoved(slot[1], slot[2])
    \/ \E slot \in PickSlots, value \in AggValues :
           PickChildModified(slot[1], slot[2], "v", value)
    \/ \E slot \in PickSlots, value \in PickSecondValues :
           PickChildModified(slot[1], slot[2], "w", value)

\* the row of a live child composed with its current mutable values
ComposedRow(parent, key) ==
    LET child == aggChildren[<<parent, key>>]
        row == With(child.props, "v", child.cur)
    IN  IF child.w = Undef THEN row ELSE With(row, "w", child.w)

\* C35: after any mutable property of a child changes, the object last
\* emitted for the parent is the row of the picked child composed with that
\* child's current mutable values, whether the comparison property is itself
\* mutable or not.
C35_PickCarriesCurrentValues ==
    \A name \in PickNames, parent \in AggParents :
        (NumericChildren(parent) # {} /\ aggEmitted[name][parent] # Undef) =>
            \E key \in Extremal(name, parent) :
                Val(aggEmitted[name][parent]) = ComposedRow(parent, key)

\* ------------------------------------------- one modify per modified event
\* the operations the binder enqueued during the last call
EnqueuedInCall == buildAll(Steps, Delivered)

\* how many modified events the last step handed out for the row and property
\* of the event e during the last call
ModifiedEventsFor(e) ==
    Cardinality({n \in 1..Len(Delivered) :
                    /\ Delivered[n].type = "modified"
                    /\ RowOf(Delivered[n]) = RowOf(e)
                    /\ Delivered[n].propertyName = e.propertyName})

\* how many modify operations the binder enqueued for that row and property
ModifyOperationsFor(e) ==
    Cardinality({i \in 1..Len(EnqueuedInCall) :
                    /\ EnqueuedInCall[i].type = "modify"
                    /\ EnqueuedInCall[i].segmentPath = e.pathSegments
                    /\ EnqueuedInCall[i].keyPath = e.keyPath
                    /\ EnqueuedInCall[i].key = e.key
                    /\ EnqueuedInCall[i].name = e.propertyName})

\* C36: for each modified event the last step emits for a row and a property
\* the binder enqueues exactly one modify operation for that segment path, key
\* path, key and property, whatever the nesting depth of the descriptor: a
\* call enqueues as many modify operations for a row and property as the last
\* step handed out modified events for them.
C36_OneModifyPerModified ==
    \A n \in 1..Len(Delivered) :
        Delivered[n].type = "modified" =>
            ModifyOperationsFor(Delivered[n]) = ModifiedEventsFor(Delivered[n])

\* -------------------------------------------- each operation, one flush
\* the step ran a flush that handed a transform to setState
FlushedInStep == lastFlush' # lastFlush /\ lastFlush'.op # "none" /\ lastFlush'.calls = 1

\* the queue lost operations in the step
QueueShrank ==
    \/ Len(pendingOperations') < Len(pendingOperations)
    \/ SubSeq(pendingOperations', 1, Len(pendingOperations)) # pendingOperations

\* C37: every operation enqueued in the updater is applied to the tree by
\* exactly one flush, also when the transform throws: a flush that hands the
\* queued operations to setState applies them and leaves none of them in the
\* queue for another flush, and operations leave the queue only with the
\* flush that applied them or with the disposal of the updater.
C37_AppliedByOneFlush ==
    [][/\ FlushedInStep =>
              /\ lastFlush'.result.ok
              /\ tree' = lastFlush'.result.tree
              /\ \A i \in 1..Len(pendingOperations') :
                     \A j \in 1..Len(lastFlush'.queued) :
                         pendingOperations'[i] # lastFlush'.queued[j]
       /\ QueueShrank => FlushedInStep \/ (pipelineUpdaters /\ ~pipelineUpdaters')]_vars

\* ------------------------------------------------- the timer of the queue
\* an add / remove / modify on the updater pushed its operation and returned
\* with the queue not flushed (a flush inside the call that throws makes the
\* call throw)
EnqueueReturned ==
    /\ Len(pendingOperations') = Len(pendingOperations) + 1
    /\ lastFlush'.op # "batch"

\* the callback of the timer ran (an armed timer follows an enqueue, which
\* leaves no record of a flush)
TimerRan == flushTimer /\ lastFlush'.op = "timer"

\* a flush handed its transform to setState
HandedToSetState == lastFlush.op # "none" /\ lastFlush.calls = 1

\* C38: whenever the queue is not empty after an enqueue returns and the
\* updater is not disposed, a flush timer is armed, and never more than one;
\* the timer that fires hands the whole queue to setState, so that the queued
\* operations are eventually handed to setState with no further enqueue and
\* no flush request.
C38_TimerArmedAndFires ==
    /\ [][/\ (pipelineUpdaters' /\ pendingOperations' # <<>> /\ EnqueueReturned) => flushTimer'
          /\ timers' <= 1
          /\ flushTimer' <=> timers' = 1
          /\ (pendingOperations # <<>> /\ TimerRan) =>
                 /\ lastFlush'.calls = 1
                 /\ lastFlush'.queued = pendingOperations]_vars
    /\ (flushTimer /\ pendingOperations # <<>> /\ pipelineUpdaters)
           ~> (HandedToSetState \/ ~pipelineUpdaters)

\* the timer has handed a queue of several operations to setState
C38_Witness ==
    /\ pipelineUpdaters
    /\ lastFlush.op = "timer"
    /\ lastFlush.calls = 1
    /\ lastFlush.result.ok
    /\ Len(lastFlush.queued) >= 2
    /\ ~flushTimer

\* ------------------------------------------------------- after the disposal
\* C39: once the pipeline's updater has been disposed of it never arms a
\* timer and never calls setState again, also when add or remove is called
\* on the pipeline afterwards.
C39_QuietAfterDispose ==
    ~pipelineUpdaters => (~flushTimer /\ timers = 0 /\ ~HandedToSetState)

\* ============================================================ specifications
SpecAgg == AggInit /\ [][NextAgg]_vars

Spec == PipeInit /\ [][Next]_vars

SpecUpdater == UpdaterInit /\ [][NextUpdater]_vars

SpecGroupBy == GroupByInitial /\ [][NextGroupBy]_vars

SpecFilter == FilterInitial /\ [][NextFilter]_vars

SpecBatch == BatchInit /\ [][NextBatch]_vars

SpecTimer == TimerInit /\ [][NextTimer]_vars

SpecContainer == ContainerInit /\ [][NextContainer]_vars

SpecReplay == ReplayInit /\ [][NextReplay]_vars

SpecPick == PickChildrenInit /\ [][NextPick]_vars

\* the updater with a caller that leaves at most MaxWaiting operations to
\* the timer; the event loop runs the callback of an armed timer
SpecBatchFair == BatchInit /\ [][NextBatchFair]_vars /\ WF_vars(TimerFires)
====
